---- MODULE Spec2Model ----
(***************************************************************************)
(* Model of TTauri::GUI::Widgets::Widget: the binding of a widget's        *)
(* extents to solver constraints, the needs (dirty) tracker and the        *)
(* recursive layout pass.                                                  *)
(*                                                                         *)
(* Solved values are kept in half device units (the value 3 stands for     *)
(* 1.5), so that round() is not the identity; stored rectangles are in     *)
(* whole device units.                                                     *)
(***************************************************************************)
EXTENDS Integers, Naturals, Sequences, FiniteSets, TLC

\* ---------------------------------------------------------------- bounds
MaxWidgets == 3          \* widgets of the tree, the root included
MaxSolved == 2           \* solved values range over 0..MaxSolved half units
MaxSolverChanges == 1    \* times the solver gives a variable a new value
MaxExtent == 2           \* extent dimensions handed to the setters: 0..MaxExtent
MaxPlace == 1            \* place*() calls made on the widget
MaxArray == 3            \* elements of the array that objects are moved in
MaxSymbols == 4          \* entries of a table of Huffman symbols
MaxLength == 3           \* longest code length of a symbol, in bits

Widgets == 0..(MaxWidgets - 1)
Root == 0
Self == 1                \* the widget the setters are called on
NoWidget == -1
NoHandle == -1

VARIABLES
    \* the tree
    parent, elevation,
    \* the visual state of each widget
    enabled, hover, focus,
    \* the external solver: solved values and registered constraints
    solved, solver,
    \* Extent Model of each widget and its constraint handles
    minimumExtent, preferedExtent, fixedExtent,
    minimumWidthConstraint, minimumHeightConstraint,
    preferedWidthConstraint, preferedHeightConstraint,
    fixedWidthConstraint, fixedHeightConstraint,
    \* needs tracker
    forceLayout, forceRedraw, widthChangePreviousValue, heightChangePreviousValue,
    \* geometry stored by layout()
    extent, offsetFromWindow, offsetFromParent, fromWindowTransform, toWindowTransform,
    \* control state of the thread calling the setters on Self
    pc, arg, alive, fatal,
    \* history: the last operation, the calls it made and the state it started from
    lastOp, log, pre, solverChanges,
    \* the render thread in a pass: where it is, the layoutChildren calls it is
    \* in (widget and child number), the force argument, the local `layout' of needs()
    rpc, rstack, rforce, rlayout,
    \* the thread that holds each widget's mutex, and window.widgetSolverMutex
    mutex, widgetSolverMutex,
    \* the hitBoxTest calls the thread of the setters is in (widget and child number)
    hstack,
    \* history of the solved size: the complete non-forced passes begun since it
    \* last changed, and whether needs() has reported a redraw since then
    quietPasses, redrawReported,
    \* placement_move_within_array: the array of objects, its arguments, the two
    \* pointers of its loop and where the call is
    array, src_first, src_last, dst_first, src, dst, mpc,
    \* history: the array at the call, and whether an element was read after it
    \* was destroyed or overwritten
    array0, staleRead,
    \* the table of Huffman symbols, the table as it was handed to
    \* huffman_symbol_table_from_length, and whether the call has returned
    table, table0, hpc

treeVars == <<parent, elevation>>
visualVars == <<enabled, hover, focus>>
memoryVars == <<array, src_first, src_last, dst_first, src, dst, mpc, array0, staleRead>>
\* the state of the library functions, which no operation of a widget touches
huffmanVars == <<table, table0, hpc>>
libraryVars == <<memoryVars, huffmanVars>>
extentVars == <<minimumExtent, preferedExtent, fixedExtent>>
handleVars == <<minimumWidthConstraint, minimumHeightConstraint,
                preferedWidthConstraint, preferedHeightConstraint,
                fixedWidthConstraint, fixedHeightConstraint>>
needsVars == <<forceLayout, forceRedraw, widthChangePreviousValue, heightChangePreviousValue>>
geomVars == <<extent, offsetFromWindow, offsetFromParent, fromWindowTransform, toWindowTransform>>
ctlVars == <<pc, arg, alive, fatal>>
frameVars == <<rpc, rstack, rforce, rlayout>>
threadVars == <<frameVars, mutex, widgetSolverMutex, hstack>>
quietVars == <<quietPasses, redrawReported>>
vars == <<treeVars, visualVars, libraryVars, solved, solver, extentVars, handleVars,
          needsVars, geomVars,
          ctlVars, lastOp, log, pre, solverChanges, threadVars, quietVars>>

\* ---------------------------------------------------------------- tree
\* children are kept in insertion order, which is the order of construction
RECURSIVE SeqOfSet(_)
SeqOfSet(S) ==
    IF S = {} THEN <<>>
    ELSE LET m == CHOOSE x \in S : \A y \in S : x <= y
         IN <<m>> \o SeqOfSet(S \ {m})

children(w) == SeqOfSet({c \in Widgets : parent[c] = w})

RECURSIVE Depth(_, _)
\* the elevation with every widget below the root at 1
Depth_flat(p, w) == IF p[w] = NoWidget THEN 0 ELSE 1

\* elevation(parent ? parent->elevation + 1.0f : 0.0f)
Depth(p, w) == IF p[w] = NoWidget THEN 0 ELSE 1 + Depth(p, p[w])

\* every tree over Widgets in which a widget is constructed after its parent
Trees == {p \in [Widgets -> Widgets \cup {NoWidget}] :
            /\ p[Root] = NoWidget
            /\ \A w \in Widgets \ {Root} : p[w] \in Widgets /\ p[w] < w}

RECURSIVE Descendants(_)
Descendants(w) ==
    LET cs == {c \in Widgets : parent[c] = w}
    IN cs \cup UNION {Descendants(c) : c \in cs}

RECURSIVE Ancestors(_)
Ancestors(w) == IF parent[w] = NoWidget THEN {} ELSE {parent[w]} \cup Ancestors(parent[w])

\* ---------------------------------------------------------------- needs tracker
\* round(): nearest whole device unit of a value given in half units, halves away from zero
Round(h) == IF h >= 0 THEN (h + 1) \div 2 ELSE -((1 - h) \div 2)

\* The part of the widgets' state the render thread works on, as one value.
WidgetState ==
    [forceLayout |-> forceLayout, forceRedraw |-> forceRedraw,
     widthChangePreviousValue |-> widthChangePreviousValue,
     heightChangePreviousValue |-> heightChangePreviousValue,
     extent |-> extent, offsetFromWindow |-> offsetFromWindow,
     offsetFromParent |-> offsetFromParent,
     fromWindowTransform |-> fromWindowTransform,
     toWindowTransform |-> toWindowTransform,
     log |-> <<>>]

\* widthOrHeightValueHasChanged with the comparison of the height left out
widthOrHeightValueHasChanged_widthOnly(st, w) ==
    LET widthValue == solved[w].width
        heightValue == solved[w].height
        changed == widthValue # st.widthChangePreviousValue[w]
    IN [st |-> [st EXCEPT !.widthChangePreviousValue[w] = widthValue,
                          !.heightChangePreviousValue[w] = heightValue],
        ret |-> changed]

\* bool Widget::widthOrHeightValueHasChanged(): compares the solved width and
\* height with the cached ones and stores the solved ones in the cache.
widthOrHeightValueHasChanged(st, w) ==
    LET widthValue == solved[w].width
        heightValue == solved[w].height
        changed == (widthValue # st.widthChangePreviousValue[w])
                   \/ (heightValue # st.heightChangePreviousValue[w])
    IN [st |-> [st EXCEPT !.widthChangePreviousValue[w] = widthValue,
                          !.heightChangePreviousValue[w] = heightValue],
        ret |-> changed]

BoolToInt(b) == IF b THEN 1 ELSE 0

\* needs() that reads forceRedraw without clearing it
needs_keepRedraw(st, w) ==
    LET layout0 == st.forceLayout[w]
        st1 == [st EXCEPT !.forceLayout[w] = FALSE]
        r == widthOrHeightValueHasChanged(st1, w)
        layoutBit == layout0 \/ r.ret
        redraw == layoutBit \/ r.st.forceRedraw[w]
        need == 2 * BoolToInt(layoutBit) + BoolToInt(redraw)
    IN [st |-> [r.st EXCEPT !.log = Append(@, [op |-> "needs", w |-> w, ret |-> need])],
        ret |-> need]

\* int Widget::needs(): consumes both flags and returns (layout << 1) | redraw.
needs(st, w) ==
    LET layout0 == st.forceLayout[w]
        st1 == [st EXCEPT !.forceLayout[w] = FALSE]
        r == widthOrHeightValueHasChanged(st1, w)
        layoutBit == layout0 \/ r.ret
        redraw == layoutBit \/ r.st.forceRedraw[w]
        st2 == [r.st EXCEPT !.forceRedraw[w] = FALSE]
        need == 2 * BoolToInt(layoutBit) + BoolToInt(redraw)
    IN [st |-> [st2 EXCEPT !.log = Append(@, [op |-> "needs", w |-> w, ret |-> need])],
        ret |-> need]

\* ---------------------------------------------------------------- layout pass
\* aarect Widget::makeWindowRectangle(): the four solved values, rounded.
makeWindowRectangle(w) ==
    [x |-> Round(solved[w].left), y |-> Round(solved[w].bottom),
     width |-> Round(solved[w].width), height |-> Round(solved[w].height)]

\* void Widget::layout(): stores the rectangle, the offsets and both transforms
\* and asks for a redraw.
layout(st, w) ==
    LET r == makeWindowRectangle(w)
        z == elevation[w]
        fromParent == IF parent[w] # NoWidget
                      THEN [x |-> r.x - st.offsetFromWindow[parent[w]].x,
                            y |-> r.y - st.offsetFromWindow[parent[w]].y]
                      ELSE [x |-> r.x, y |-> r.y]
    IN [st EXCEPT !.extent[w] = [width |-> r.width, height |-> r.height],
                  !.offsetFromWindow[w] = [x |-> r.x, y |-> r.y],
                  !.offsetFromParent[w] = fromParent,
                  !.fromWindowTransform[w] = <<-r.x, -r.y, -z>>,
                  !.toWindowTransform[w] = <<r.x, r.y, z>>,
                  !.forceRedraw[w] = TRUE,
                  !.log = Append(@, [op |-> "layout", w |-> w, ret |-> 0])]

\* int Widget::layoutChildren(): for each child in order needs(), layout() when
\* forced or when the child's need is at layout level, then the child's children.
\* LayoutLoop is the for loop from child number i on, acc being total_need.
RECURSIVE layoutChildren(_, _, _)
RECURSIVE LayoutLoop(_, _, _, _, _)
BitOr2(a, b) ==
    2 * (IF (a \div 2) % 2 = 1 \/ (b \div 2) % 2 = 1 THEN 1 ELSE 0)
    + (IF a % 2 = 1 \/ b % 2 = 1 THEN 1 ELSE 0)

\* LayoutLoop that ignores force
LayoutLoop_ignoreForce(st, cs, i, force, acc) ==
    IF i > Len(cs) THEN [st |-> st, ret |-> acc]
    ELSE LET child == cs[i]
             n == needs(st, child)
             child_need == n.ret
             st1 == IF child_need >= 2 THEN layout(n.st, child) ELSE n.st
             sub == layoutChildren(st1, child, force)
         IN LayoutLoop(sub.st, cs, i + 1, force,
                       BitOr2(BitOr2(acc, child_need), sub.ret))

\* LayoutLoop that visits the children of a child only when the child was laid out
LayoutLoop_skipClean(st, cs, i, force, acc) ==
    IF i > Len(cs) THEN [st |-> st, ret |-> acc]
    ELSE LET child == cs[i]
             n == needs(st, child)
             child_need == n.ret
             laidOut == force \/ child_need >= 2
             st1 == IF laidOut THEN layout(n.st, child) ELSE n.st
             sub == IF laidOut THEN layoutChildren(st1, child, force)
                    ELSE [st |-> st1, ret |-> 0]
         IN LayoutLoop(sub.st, cs, i + 1, force,
                       BitOr2(BitOr2(acc, child_need), sub.ret))

\* LayoutLoop that lays a child out on any need, a redraw need included
LayoutLoop_anyNeed(st, cs, i, force, acc) ==
    IF i > Len(cs) THEN [st |-> st, ret |-> acc]
    ELSE LET child == cs[i]
             n == needs(st, child)
             child_need == n.ret
             st1 == IF force \/ child_need >= 1 THEN layout(n.st, child) ELSE n.st
             sub == layoutChildren(st1, child, force)
         IN LayoutLoop(sub.st, cs, i + 1, force,
                       BitOr2(BitOr2(acc, child_need), sub.ret))

\* LayoutLoop that leaves what the child's layoutChildren returned out of total_need
LayoutLoop_dropSubtree(st, cs, i, force, acc) ==
    IF i > Len(cs) THEN [st |-> st, ret |-> acc]
    ELSE LET child == cs[i]
             n == needs(st, child)
             child_need == n.ret
             st1 == IF force \/ child_need >= 2 THEN layout(n.st, child) ELSE n.st
             sub == layoutChildren(st1, child, force)
         IN LayoutLoop(sub.st, cs, i + 1, force, BitOr2(acc, child_need))

LayoutLoop(st, cs, i, force, acc) ==
    IF i > Len(cs) THEN [st |-> st, ret |-> acc]
    ELSE LET child == cs[i]
             n == needs(st, child)
             child_need == n.ret
             st1 == IF force \/ child_need >= 2 THEN layout(n.st, child) ELSE n.st
             sub == layoutChildren(st1, child, force)
         IN LayoutLoop(sub.st, cs, i + 1, force,
                       BitOr2(BitOr2(acc, child_need), sub.ret))

layoutChildren(st, w, force) ==
    LET r == LayoutLoop(st, children(w), 1, force, 0)
    IN [st |-> [r.st EXCEPT !.log = Append(@, [op |-> "layoutChildren", w |-> w,
                                               ret |-> r.ret])],
        ret |-> r.ret]

\* ---------------------------------------------------------------- solver binding
Extents == [width : 0..MaxExtent, height : 0..MaxExtent]
Margins == {1}
\* the defaultExtent the widgets are constructed with
DefaultExtent == [width |-> 1, height |-> 1]

\* A registered constraint: `var' of widget `by' compared (op) with `bound', or,
\* for the place*() calls, with variable rel[2] of widget rel[1] plus a margin.
Constraint(id, by, var, op, bound, strength, rel) ==
    [id |-> id, by |-> by, var |-> var, op |-> op, bound |-> bound,
     strength |-> strength, rel |-> rel]
NoRel == <<NoWidget, "">>

HandlesInUse ==
    {c.id : c \in solver}
    \cup {minimumWidthConstraint[w] : w \in Widgets}
    \cup {minimumHeightConstraint[w] : w \in Widgets}
    \cup {preferedWidthConstraint[w] : w \in Widgets}
    \cup {preferedHeightConstraint[w] : w \in Widgets}
    \cup {fixedWidthConstraint[w] : w \in Widgets}
    \cup {fixedHeightConstraint[w] : w \in Widgets}

\* The handle of a newly made constraint object: one that nothing refers to.
\* Handles are numbered from a base that depends on the owner and on the
\* member that stores the handle, which keeps the numbering small.
Base(w, slot) == 100 * w + 10 * slot
FreshHandle(w, slot) ==
    CHOOSE i \in Base(w, slot)..(Base(w, slot) + 9) :
        /\ i \notin HandlesInUse
        /\ \A j \in Base(w, slot)..(i - 1) : j \in HandlesInUse

Registered(id) == \E c \in solver : c.id = id

\* Window::addConstraint: registers the constraint, the handle is its id
addConstraint(sv, c) == sv \cup {c}
\* Window::removeConstraint: unregisters the constraint with that handle
removeConstraint(sv, id) == {c \in sv : c.id # id}
\* Window::replaceConstraint: the new constraint is added and the old one
\* removed in one solver operation
replaceConstraint(sv, id, c) == removeConstraint(addConstraint(sv, c), id)

\* the constraints as Widget::Widget registers them, in the order of construction
BaseConstraints(w, defaultExtent) ==
    {Constraint(Base(w, 0), w, "width", ">=", defaultExtent.width, "required", NoRel),
     Constraint(Base(w, 1), w, "height", ">=", defaultExtent.height, "required", NoRel),
     Constraint(Base(w, 2), w, "width", ">=", defaultExtent.width, "strong", NoRel),
     Constraint(Base(w, 3), w, "height", ">=", defaultExtent.height, "strong", NoRel)}

\* ---------------------------------------------------------------- initial state
ZeroRect == [left |-> 0, bottom |-> 0, width |-> 0, height |-> 0]

\* Widget::Widget for every widget of tree p, all with the same defaultExtent,
\* rects[w] being the solved rectangle of widget w.
\* flag is the value both needs flags start with: they start set, so that the
\* first pass lays every widget out; once consumed they are as if started clear.
InitWidgetState(p, defaultExtent, flag, rects) ==
    /\ parent = p
    /\ elevation = [w \in Widgets |-> Depth(p, w)]
    /\ enabled = [w \in Widgets |-> TRUE]
    /\ hover = [w \in Widgets |-> FALSE]
    /\ focus = [w \in Widgets |-> FALSE]
    /\ solved = rects
    /\ solver = UNION {BaseConstraints(w, defaultExtent) : w \in Widgets}
    /\ minimumExtent = [w \in Widgets |-> defaultExtent]
    /\ preferedExtent = [w \in Widgets |-> defaultExtent]
    /\ fixedExtent = [w \in Widgets |-> [width |-> 0, height |-> 0]]
    /\ minimumWidthConstraint = [w \in Widgets |-> Base(w, 0)]
    /\ minimumHeightConstraint = [w \in Widgets |-> Base(w, 1)]
    /\ preferedWidthConstraint = [w \in Widgets |-> Base(w, 2)]
    /\ preferedHeightConstraint = [w \in Widgets |-> Base(w, 3)]
    /\ fixedWidthConstraint = [w \in Widgets |-> NoHandle]
    /\ fixedHeightConstraint = [w \in Widgets |-> NoHandle]
    /\ forceLayout = [w \in Widgets |-> flag]
    /\ forceRedraw = [w \in Widgets |-> flag]
    /\ widthChangePreviousValue = [w \in Widgets |-> 0]
    /\ heightChangePreviousValue = [w \in Widgets |-> 0]
    /\ extent = [w \in Widgets |-> [width |-> 0, height |-> 0]]
    /\ offsetFromWindow = [w \in Widgets |-> [x |-> 0, y |-> 0]]
    /\ offsetFromParent = [w \in Widgets |-> [x |-> 0, y |-> 0]]
    /\ fromWindowTransform = [w \in Widgets |-> <<0, 0, 0>>]
    /\ toWindowTransform = [w \in Widgets |-> <<0, 0, 0>>]
    /\ pc = "idle"
    /\ arg = [width |-> 0, height |-> 0]
    /\ alive = [w \in Widgets |-> TRUE]
    /\ fatal = "no"
    /\ lastOp = "init"
    /\ log = <<>>
    /\ pre = WidgetState
    /\ solverChanges = 0
    /\ rpc = "idle"
    /\ rstack = <<>>
    /\ rforce = FALSE
    /\ rlayout = FALSE
    /\ mutex = [w \in Widgets |-> "free"]
    /\ widgetSolverMutex = "free"
    /\ hstack = <<>>
    /\ quietPasses = 0
    /\ redrawReported = [w \in Widgets |-> FALSE]

\* no call of placement_move_within_array is made
NoArray ==
    /\ array = <<>> /\ array0 = <<>>
    /\ src_first = 1 /\ src_last = 1 /\ dst_first = 1 /\ src = 1 /\ dst = 1
    /\ mpc = "idle" /\ staleRead = FALSE

NoTable == table = <<>> /\ table0 = <<>> /\ hpc = "idle"

\* the widgets of a program that does nothing else
InitWidgetsWith(p, defaultExtent, flag, rects) ==
    InitWidgetState(p, defaultExtent, flag, rects) /\ NoArray /\ NoTable

\* the same with rect as the solved rectangle of every widget
InitWidgetsAt(p, defaultExtent, flag, rect) ==
    InitWidgetsWith(p, defaultExtent, flag, [w \in Widgets |-> rect])

\* the same before the solver has solved anything: every solved value is zero
InitWidgets(p, defaultExtent, flag) == InitWidgetsAt(p, defaultExtent, flag, ZeroRect)

\* ---------------------------------------------------------------- the solver re-solves
\* History: the solved rectangle of w has just changed.  A pass that is under
\* way does not count as one begun after the change.
SizeChanged(w) ==
    /\ quietPasses' = IF rpc = "idle" THEN 0 ELSE -1
    /\ redrawReported' = [redrawReported EXCEPT ![w] = FALSE]

\* The external solver gives one variable of one widget a new value.
SolverChange(w, var, val) ==
    /\ pc = "idle" /\ fatal = "no" /\ widgetSolverMutex = "free"
    /\ solverChanges < MaxSolverChanges
    /\ solved[w][var] # val
    /\ solved' = [solved EXCEPT ![w][var] = val]
    /\ solverChanges' = solverChanges + 1
    /\ lastOp' = "solve"
    /\ log' = <<>>
    /\ pre' = WidgetState
    /\ SizeChanged(w)
    /\ UNCHANGED <<treeVars, visualVars, libraryVars, solver, extentVars, handleVars,
                   needsVars, geomVars, ctlVars,
                   threadVars>>

\* ---------------------------------------------------------------- the render thread
SetWidgetState(st) ==
    /\ forceLayout' = st.forceLayout
    /\ forceRedraw' = st.forceRedraw
    /\ widthChangePreviousValue' = st.widthChangePreviousValue
    /\ heightChangePreviousValue' = st.heightChangePreviousValue
    /\ extent' = st.extent
    /\ offsetFromWindow' = st.offsetFromWindow
    /\ offsetFromParent' = st.offsetFromParent
    /\ fromWindowTransform' = st.fromWindowTransform
    /\ toWindowTransform' = st.toWindowTransform
    /\ log' = st.log

\* The name a pass is recorded under in lastOp: its mode, and whether it
\* directly follows a pass of the same mode (nothing happened in between).
PassName(force, again) ==
    IF force THEN (IF again THEN "layoutChildren_forced_again" ELSE "layoutChildren_forced")
    ELSE (IF again THEN "layoutChildren_again" ELSE "layoutChildren")

\* One complete Layout Pass: layoutChildren(force) called on the root.
LayoutPass(force) ==
    /\ pc = "idle" /\ fatal = "no"
    /\ SetWidgetState(layoutChildren(WidgetState, Root, force).st)
    /\ lastOp' = PassName(force, lastOp \in {PassName(force, FALSE), PassName(force, TRUE)})
    /\ pre' = WidgetState
    /\ UNCHANGED <<treeVars, visualVars, libraryVars, solved, solver, extentVars,
                   handleVars, ctlVars, solverChanges,
                   threadVars, quietVars>>

Init == \E p \in Trees : InitWidgets(p, DefaultExtent, TRUE)

Next ==
    \/ \E w \in Widgets \ {Root}, var \in {"left", "bottom", "width", "height"},
          val \in 0..MaxSolved : SolverChange(w, var, val)
    \/ \E force \in BOOLEAN : LayoutPass(force)

Spec == Init /\ [][Next]_vars

\* ---------------------------------------------------------------- properties of the pass
RECURSIVE CountCalls(_, _, _)
CountCalls(l, op, w) ==
    IF l = <<>> THEN 0
    ELSE (IF Head(l).op = op /\ Head(l).w = w THEN 1 ELSE 0) + CountCalls(Tail(l), op, w)

NeedsCalls(w) == CountCalls(log, "needs", w)
LayoutCalls(w) == CountCalls(log, "layout", w)
\* what needs() returned for w in the last operation (when it was called once)
NeedOf(w) == LET i == CHOOSE i \in 1..Len(log) : log[i].op = "needs" /\ log[i].w = w
             IN log[i].ret

AfterForcedPass == lastOp \in {PassName(TRUE, FALSE), PassName(TRUE, TRUE)}
AfterUnforcedPass == lastOp \in {PassName(FALSE, FALSE), PassName(FALSE, TRUE)}
AfterPass == AfterForcedPass \/ AfterUnforcedPass
\* the last two operations were passes of the same mode
AfterSecondPass == lastOp \in {PassName(TRUE, TRUE), PassName(FALSE, TRUE)}

WindowRectangle(w) ==
    [x |-> offsetFromWindow[w].x, y |-> offsetFromWindow[w].y,
     width |-> extent[w].width, height |-> extent[w].height]

\* the rectangle w had stored before the last operation
PreRectangle(w) ==
    [x |-> pre.offsetFromWindow[w].x, y |-> pre.offsetFromWindow[w].y,
     width |-> pre.extent[w].width, height |-> pre.extent[w].height]

\* the solved size of w differs from the size cached before the last operation
SizeChangedSinceCache(w) ==
    \/ solved[w].width # pre.widthChangePreviousValue[w]
    \/ solved[w].height # pre.heightChangePreviousValue[w]

Geometry(st, w) ==
    <<st.extent[w], st.offsetFromWindow[w], st.offsetFromParent[w],
      st.fromWindowTransform[w], st.toWindowTransform[w]>>

\* C1: after a complete Layout Pass, forced or not, the stored window rectangle
\* of every strict descendant of the root equals the rounded solved left, bottom,
\* width and height of that widget.
C1_RectanglesCurrentAfterPass ==
    AfterPass => \A w \in Descendants(Root) : WindowRectangle(w) = makeWindowRectangle(w)

\* C2: in a Layout Pass, a visited widget whose solved width or height differs
\* from the cached one gets the layout bit from needs() and is laid out in that
\* pass; afterwards the cache holds the solved size and a repeated needs()
\* reports no layout.
C2_SizeChangeDetected ==
    AfterPass =>
        \A w \in Descendants(Root) :
            /\ SizeChangedSinceCache(w) =>
                   NeedsCalls(w) = 1 /\ NeedOf(w) >= 2 /\ LayoutCalls(w) = 1
            /\ widthChangePreviousValue[w] = solved[w].width
            /\ heightChangePreviousValue[w] = solved[w].height
            /\ needs(WidgetState, w).ret < 2

C2_Witness ==
    /\ AfterUnforcedPass
    /\ \E w \in Descendants(Root) :
           /\ solved[w].height # pre.heightChangePreviousValue[w]
           /\ solved[w].width = pre.widthChangePreviousValue[w]
           /\ ~pre.forceLayout[w]
           /\ LayoutCalls(w) = 1

\* C8: a forced Layout Pass lays out every strict descendant exactly once, and
\* every pass evaluates needs() exactly once for every strict descendant (and
\* for no other widget).
C8_ForcedPassLaysOutEachOnce ==
    AfterPass =>
        \A w \in Widgets :
            /\ NeedsCalls(w) = (IF w \in Descendants(Root) THEN 1 ELSE 0)
            /\ AfterForcedPass =>
                   LayoutCalls(w) = (IF w \in Descendants(Root) THEN 1 ELSE 0)

C8_Witness ==
    /\ AfterForcedPass
    /\ \E w \in Descendants(Root) :
           /\ parent[w] # Root
           /\ NeedOf(w) = 0 /\ NeedOf(parent[w]) = 0
           /\ LayoutCalls(w) = 1

\* C9: in a non-forced pass every strict descendant whose own need is at layout
\* level (flag set or solved size changed) is laid out, whatever its ancestors
\* report.
C9_DirtyLeafNotSkipped ==
    AfterUnforcedPass =>
        \A w \in Descendants(Root) :
            (pre.forceLayout[w] \/ SizeChangedSinceCache(w)) =>
                /\ LayoutCalls(w) = 1
                /\ extent[w] = [width |-> Round(solved[w].width),
                                height |-> Round(solved[w].height)]

C9_Witness ==
    /\ AfterUnforcedPass
    /\ \E w \in Descendants(Root) :
           /\ parent[w] # Root
           /\ NeedOf(parent[w]) = 0 /\ LayoutCalls(parent[w]) = 0
           /\ SizeChangedSinceCache(w)
           /\ LayoutCalls(w) = 1

\* C10: a widget is laid out in a pass exactly when the pass is forced or the
\* widget's own need is at layout level; in a non-forced pass a widget whose
\* need is below layout level keeps its rectangle, both offsets and both
\* transforms.
C10_LaidOutIffForcedOrNeeded ==
    AfterPass =>
        \A w \in Descendants(Root) :
            /\ (LayoutCalls(w) >= 1) <=> (AfterForcedPass \/ NeedOf(w) >= 2)
            /\ (AfterUnforcedPass /\ NeedOf(w) < 2) =>
                   Geometry(WidgetState, w) = Geometry(pre, w)

C10_Witness ==
    /\ AfterUnforcedPass
    /\ \E w, v \in Descendants(Root) :
           /\ w # v /\ parent[w] = parent[v]
           /\ NeedOf(w) = 3 /\ LayoutCalls(w) = 1
           /\ NeedOf(v) = 1 /\ LayoutCalls(v) = 0
           /\ WindowRectangle(w) # PreRectangle(w)

ReturnOf(w) ==
    LET i == CHOOSE i \in 1..Len(log) : log[i].op = "layoutChildren" /\ log[i].w = w
    IN log[i].ret

\* C17: every needs() result has the redraw bit whenever it has the layout bit
\* (it is 0, 1 or 3, never 2), and what layoutChildren returns for a widget is
\* the bitwise OR of the needs() results of all its strict descendants.
C17_NeedsBitsAndSubtreeOr ==
    AfterPass =>
        /\ \A i \in 1..Len(log) : log[i].op = "needs" => log[i].ret \in {0, 1, 3}
        /\ \A w \in Widgets :
               ReturnOf(w) = 2 * BoolToInt(\E v \in Descendants(w) : NeedOf(v) \in {2, 3})
                             + BoolToInt(\E v \in Descendants(w) : NeedOf(v) \in {1, 3})

C17_Witness ==
    /\ AfterUnforcedPass
    /\ \E w \in Descendants(Root) : \E v \in Descendants(w) :
           /\ NeedOf(w) = 0 /\ NeedOf(v) = 3
           /\ ReturnOf(w) = 3 /\ ReturnOf(Root) = 3

\* ---------------------------------------------------------------- Extent Model of Self
\* The setters hold the widget's mutex for the whole call; each call of the
\* window's solver (add, remove, replace) is one step, so that the solver can
\* be observed between two of them.  pc names the solver call to be made next.
Running == alive[Self] /\ fatal = "no"
NoArg == [width |-> 0, height |-> 0]
\* std::scoped_lock(mutex) of Self by the thread that calls the setters: it
\* waits while the render thread holds the mutex, and holds it until the call returns
Locked == /\ mutex[Self] # "render" /\ mutex' = [mutex EXCEPT ![Self] = "input"]
Unlocked == mutex' = [mutex EXCEPT ![Self] = IF @ = "input" THEN "free" ELSE @]
Done(op) ==
    /\ pc' = "idle" /\ arg' = NoArg /\ lastOp' = op /\ log' = <<>> /\ pre' = WidgetState
    /\ Unlocked
Goto(l) == /\ pc' = l /\ Locked /\ UNCHANGED <<arg, lastOp, log, pre>>
\* a call that finds the stored value equal to its argument and returns
Return(op) ==
    /\ mutex[Self] # "render"
    /\ lastOp' = op /\ log' = <<>> /\ pre' = WidgetState
    /\ UNCHANGED <<pc, arg, mutex>>
\* a call that ends in a failed assertion: its argument stays on record
Failed(op, a) ==
    /\ pc' = "idle" /\ arg' = a /\ lastOp' = op /\ log' = <<>> /\ pre' = WidgetState
    /\ Locked
GotoWith(l, a) == /\ pc' = l /\ arg' = a /\ Locked /\ UNCHANGED <<lastOp, log, pre>>
otherVars == <<treeVars, visualVars, libraryVars, solved, needsVars, geomVars, alive,
               solverChanges,
               frameVars, widgetSolverMutex, hstack, quietVars>>

\* Window::removeConstraint on a handle the solver does not hold fails in the
\* solver (constraint not found) and ends the program.
RemoveOrFail(id) ==
    IF Registered(id)
    THEN /\ solver' = removeConstraint(solver, id) /\ UNCHANGED fatal
    ELSE /\ fatal' = "constraint_not_found" /\ UNCHANGED solver

\* setMinimumExtent without the comparison with the stored value
setMinimumExtent_always(newMinimumExtent) ==
    /\ Running /\ pc = "idle"
    /\ minimumExtent' = [minimumExtent EXCEPT ![Self] = newMinimumExtent]
    /\ Goto("setMinimumExtent_width")
    /\ UNCHANGED <<otherVars, solver, preferedExtent, fixedExtent, handleVars, fatal>>

\* void Widget::setMinimumExtent(vec newMinimumExtent)
setMinimumExtent(newMinimumExtent) ==
    /\ Running /\ pc = "idle"
    /\ IF newMinimumExtent # minimumExtent[Self]
       THEN /\ minimumExtent' = [minimumExtent EXCEPT ![Self] = newMinimumExtent]
            /\ Goto("setMinimumExtent_width")
       ELSE /\ UNCHANGED minimumExtent
            /\ Return("setMinimumExtent_same")
    /\ UNCHANGED <<otherVars, solver, preferedExtent, fixedExtent, handleVars, fatal>>

setMinimumExtent_width ==
    /\ Running /\ pc = "setMinimumExtent_width" /\ widgetSolverMutex = "free"
    /\ LET id == FreshHandle(Self, 0)
       IN /\ solver' = replaceConstraint(solver, minimumWidthConstraint[Self],
                 Constraint(id, Self, "width", ">=", minimumExtent[Self].width, "required", NoRel))
          /\ minimumWidthConstraint' = [minimumWidthConstraint EXCEPT ![Self] = id]
    /\ Goto("setMinimumExtent_height")
    /\ UNCHANGED <<otherVars, extentVars, fatal, minimumHeightConstraint,
                   preferedWidthConstraint, preferedHeightConstraint,
                   fixedWidthConstraint, fixedHeightConstraint>>

\* setMinimumExtent_height that adds the new constraint without replacing the old one
setMinimumExtent_height_add ==
    /\ Running /\ pc = "setMinimumExtent_height" /\ widgetSolverMutex = "free"
    /\ LET id == FreshHandle(Self, 1)
       IN /\ solver' = addConstraint(solver,
                 Constraint(id, Self, "height", ">=", minimumExtent[Self].height, "required", NoRel))
          /\ minimumHeightConstraint' = [minimumHeightConstraint EXCEPT ![Self] = id]
    /\ Done("setMinimumExtent")
    /\ UNCHANGED <<otherVars, extentVars, fatal, minimumWidthConstraint,
                   preferedWidthConstraint, preferedHeightConstraint,
                   fixedWidthConstraint, fixedHeightConstraint>>

setMinimumExtent_height ==
    /\ Running /\ pc = "setMinimumExtent_height" /\ widgetSolverMutex = "free"
    /\ LET id == FreshHandle(Self, 1)
       IN /\ solver' = replaceConstraint(solver, minimumHeightConstraint[Self],
                 Constraint(id, Self, "height", ">=", minimumExtent[Self].height, "required", NoRel))
          /\ minimumHeightConstraint' = [minimumHeightConstraint EXCEPT ![Self] = id]
    /\ Done("setMinimumExtent")
    /\ UNCHANGED <<otherVars, extentVars, fatal, minimumWidthConstraint,
                   preferedWidthConstraint, preferedHeightConstraint,
                   fixedWidthConstraint, fixedHeightConstraint>>

\* void Widget::setPreferedExtent(vec newPreferedExtent)
setPreferedExtent(newPreferedExtent) ==
    /\ Running /\ pc = "idle"
    /\ IF newPreferedExtent # preferedExtent[Self]
       THEN /\ preferedExtent' = [preferedExtent EXCEPT ![Self] = newPreferedExtent]
            /\ Goto("setPreferedExtent_width")
       ELSE /\ UNCHANGED preferedExtent
            /\ Return("setPreferedExtent_same")
    /\ UNCHANGED <<otherVars, solver, minimumExtent, fixedExtent, handleVars, fatal>>

setPreferedExtent_width ==
    /\ Running /\ pc = "setPreferedExtent_width" /\ widgetSolverMutex = "free"
    /\ LET id == FreshHandle(Self, 2)
       IN /\ solver' = replaceConstraint(solver, preferedWidthConstraint[Self],
                 Constraint(id, Self, "width", ">=", preferedExtent[Self].width, "weak", NoRel))
          /\ preferedWidthConstraint' = [preferedWidthConstraint EXCEPT ![Self] = id]
    /\ Goto("setPreferedExtent_height")
    /\ UNCHANGED <<otherVars, extentVars, fatal, minimumWidthConstraint,
                   minimumHeightConstraint, preferedHeightConstraint,
                   fixedWidthConstraint, fixedHeightConstraint>>

setPreferedExtent_height ==
    /\ Running /\ pc = "setPreferedExtent_height" /\ widgetSolverMutex = "free"
    /\ LET id == FreshHandle(Self, 3)
       IN /\ solver' = replaceConstraint(solver, preferedHeightConstraint[Self],
                 Constraint(id, Self, "height", ">=", preferedExtent[Self].height, "weak", NoRel))
          /\ preferedHeightConstraint' = [preferedHeightConstraint EXCEPT ![Self] = id]
    /\ Done("setPreferedExtent")
    /\ UNCHANGED <<otherVars, extentVars, fatal, minimumWidthConstraint,
                   minimumHeightConstraint, preferedWidthConstraint,
                   fixedWidthConstraint, fixedHeightConstraint>>

\* void Widget::setFixedExtent(vec newFixedExtent): the two assertions, then,
\* when the value differs, remove, remove, assign, add, add.
\* the assertions of setFixedExtent with the one on the height left out
FixedExtentAllowed_widthOnly(newFixedExtent) ==
    newFixedExtent.width = 0 \/ newFixedExtent.width >= minimumExtent[Self].width

FixedExtentAllowed(newFixedExtent) ==
    /\ newFixedExtent.width = 0 \/ newFixedExtent.width >= minimumExtent[Self].width
    /\ newFixedExtent.height = 0 \/ newFixedExtent.height >= minimumExtent[Self].height

setFixedExtent(newFixedExtent) ==
    /\ Running /\ pc = "idle"
    /\ IF ~FixedExtentAllowed(newFixedExtent)
       THEN /\ fatal' = "assert"
            /\ Failed("setFixedExtent_assert", newFixedExtent)
       ELSE /\ UNCHANGED fatal
            /\ IF newFixedExtent # fixedExtent[Self]
               THEN GotoWith("setFixedExtent_remove_width", newFixedExtent)
               ELSE Return("setFixedExtent_same")
    /\ UNCHANGED <<otherVars, solver, extentVars, handleVars>>

\* setFixedExtent_remove_width that looks at the new width instead of the stored one
setFixedExtent_remove_width_new ==
    /\ Running /\ pc = "setFixedExtent_remove_width" /\ widgetSolverMutex = "free"
    /\ IF arg.width # 0
       THEN RemoveOrFail(fixedWidthConstraint[Self])
       ELSE UNCHANGED <<solver, fatal>>
    /\ Goto("setFixedExtent_remove_height")
    /\ UNCHANGED <<otherVars, extentVars, handleVars>>

setFixedExtent_remove_width ==
    /\ Running /\ pc = "setFixedExtent_remove_width" /\ widgetSolverMutex = "free"
    /\ IF fixedExtent[Self].width # 0
       THEN RemoveOrFail(fixedWidthConstraint[Self])
       ELSE UNCHANGED <<solver, fatal>>
    /\ Goto("setFixedExtent_remove_height")
    /\ UNCHANGED <<otherVars, extentVars, handleVars>>

setFixedExtent_remove_height ==
    /\ Running /\ pc = "setFixedExtent_remove_height" /\ widgetSolverMutex = "free"
    /\ IF fixedExtent[Self].height # 0
       THEN RemoveOrFail(fixedHeightConstraint[Self])
       ELSE UNCHANGED <<solver, fatal>>
    /\ fixedExtent' = [fixedExtent EXCEPT ![Self] = arg]
    /\ Goto("setFixedExtent_add_width")
    /\ UNCHANGED <<otherVars, minimumExtent, preferedExtent, handleVars>>

setFixedExtent_add_width ==
    /\ Running /\ pc = "setFixedExtent_add_width" /\ widgetSolverMutex = "free"
    /\ IF fixedExtent[Self].width # 0
       THEN LET id == FreshHandle(Self, 4)
            IN /\ solver' = addConstraint(solver,
                      Constraint(id, Self, "width", "==", fixedExtent[Self].width, "required", NoRel))
               /\ fixedWidthConstraint' = [fixedWidthConstraint EXCEPT ![Self] = id]
       ELSE UNCHANGED <<solver, fixedWidthConstraint>>
    /\ Goto("setFixedExtent_add_height")
    /\ UNCHANGED <<otherVars, extentVars, fatal, minimumWidthConstraint,
                   minimumHeightConstraint, preferedWidthConstraint,
                   preferedHeightConstraint, fixedHeightConstraint>>

setFixedExtent_add_height ==
    /\ Running /\ pc = "setFixedExtent_add_height" /\ widgetSolverMutex = "free"
    /\ IF fixedExtent[Self].height # 0
       THEN LET id == FreshHandle(Self, 5)
            IN /\ solver' = addConstraint(solver,
                      Constraint(id, Self, "height", "==", fixedExtent[Self].height, "required", NoRel))
               /\ fixedHeightConstraint' = [fixedHeightConstraint EXCEPT ![Self] = id]
       ELSE UNCHANGED <<solver, fixedHeightConstraint>>
    /\ Done("setFixedExtent")
    /\ UNCHANGED <<otherVars, extentVars, fatal, minimumWidthConstraint,
                   minimumHeightConstraint, preferedWidthConstraint,
                   preferedHeightConstraint, fixedWidthConstraint>>

\* Widget::place*(): one constraint  this.var == other.var + offset  is added and
\* its handle is dropped.
PlaceCalls ==
    {<<"placeBelow", "top", "bottom", -1>>, <<"placeAbove", "bottom", "top", 1>>,
     <<"placeLeftOf", "right", "left", -1>>, <<"placeRightOf", "left", "right", 1>>}
PlaceAtCalls ==
    {<<"placeAtTop", "top", "top", -1>>, <<"placeAtBottom", "bottom", "bottom", 1>>,
     <<"placeLeft", "left", "left", 1>>, <<"placeRight", "right", "right", -1>>}
PlacedBy(w) == {c \in solver : c.by = w /\ c.rel # NoRel}

place(call, rhs, margin) ==
    /\ Running /\ pc = "idle" /\ widgetSolverMutex = "free"
    /\ Cardinality(PlacedBy(Self)) < MaxPlace
    /\ solver' = addConstraint(solver,
           Constraint(FreshHandle(Self, 6), Self, call[2], "==", call[4] * margin, "required",
                      <<rhs, call[3]>>))
    /\ Done("place")
    /\ UNCHANGED <<otherVars, extentVars, handleVars, fatal>>

\* Widget::~Widget(): the four base constraints are removed.
destroy ==
    /\ Running /\ pc = "idle" /\ widgetSolverMutex = "free"
    /\ solver' = removeConstraint(removeConstraint(removeConstraint(removeConstraint(solver,
                     minimumWidthConstraint[Self]), minimumHeightConstraint[Self]),
                     preferedWidthConstraint[Self]), preferedHeightConstraint[Self])
    /\ alive' = [alive EXCEPT ![Self] = FALSE]
    /\ Done("destroy")
    /\ UNCHANGED <<treeVars, visualVars, libraryVars, solved, needsVars, geomVars,
                   solverChanges,
                   extentVars, handleVars, fatal, frameVars, widgetSolverMutex, hstack,
                   quietVars>>

\* needs() called on Self, as the pass of the render thread does.
callNeeds ==
    /\ Running
    /\ SetWidgetState(needs(WidgetState, Self).st)
    /\ lastOp' = "needs"
    /\ pre' = WidgetState
    /\ UNCHANGED <<treeVars, visualVars, libraryVars, solved, solver, extentVars,
                   handleVars, ctlVars, solverChanges,
                   threadVars, quietVars>>

\* the tree of SpecExtent: every widget is a child of the root
Star == [w \in Widgets |-> IF w = Root THEN NoWidget ELSE Root]

InitExtent == InitWidgets(Star, DefaultExtent, TRUE)

\* the minimum and the preferred extent of Self are set, and the render thread asks for its needs
NextExtent ==
    \/ \E e \in Extents : setMinimumExtent(e)
    \/ setMinimumExtent_width
    \/ setMinimumExtent_height
    \/ \E e \in Extents : setPreferedExtent(e)
    \/ setPreferedExtent_width
    \/ setPreferedExtent_height
    \/ callNeeds

SpecExtent == InitExtent /\ [][NextExtent]_vars

\* the minimum and the fixed extent of Self are set, and the render thread asks for its needs
NextFixed ==
    \/ \E e \in Extents : setMinimumExtent(e)
    \/ setMinimumExtent_width
    \/ setMinimumExtent_height
    \/ \E e \in Extents : setFixedExtent(e)
    \/ setFixedExtent_remove_width
    \/ setFixedExtent_remove_height
    \/ setFixedExtent_add_width
    \/ setFixedExtent_add_height
    \/ callNeeds

SpecFixed == InitExtent /\ [][NextFixed]_vars

\* the life of Self: its fixed extent is set, it is placed, and it is destroyed
NextLifecycle ==
    \/ \E e \in Extents : setFixedExtent(e)
    \/ setFixedExtent_remove_width
    \/ setFixedExtent_remove_height
    \/ setFixedExtent_add_width
    \/ setFixedExtent_add_height
    \/ \E call \in PlaceCalls, rhs \in Widgets \ {Root, Self}, m \in Margins : place(call, rhs, m)
    \/ \E call \in PlaceAtCalls, m \in Margins : place(call, parent[Self], m)
    \/ destroy

SpecLifecycle == InitExtent /\ [][NextLifecycle]_vars

\* ---------------------------------------------------------------- properties of the binding
SizeConstraints(w, var, op, strengths) ==
    {c \in solver : c.by = w /\ c.var = var /\ c.op = op /\ c.strength \in strengths
                    /\ c.rel = NoRel}
MinimumWidthOf(w) == SizeConstraints(w, "width", ">=", {"required"})
MinimumHeightOf(w) == SizeConstraints(w, "height", ">=", {"required"})
PreferedWidthOf(w) == SizeConstraints(w, "width", ">=", {"strong", "weak"})
PreferedHeightOf(w) == SizeConstraints(w, "height", ">=", {"strong", "weak"})
FixedWidthOf(w) == SizeConstraints(w, "width", "==", {"required"})
FixedHeightOf(w) == SizeConstraints(w, "height", "==", {"required"})

\* S holds exactly the constraint with handle id, and its bound is b
ExactlyOne(S, id, b) == \E c \in S : S = {c} /\ c.id = id /\ c.bound = b

\* C3: when a setter has changed a registered constraint, the needs_layout flag
\* of the widget is set, so that the next needs() returns the layout bit, also
\* when the solved width and height did not change.
C3_SetterSetsNeedsLayout ==
    lastOp \in {"setMinimumExtent", "setPreferedExtent", "setFixedExtent"} =>
        forceLayout[Self] /\ needs(WidgetState, Self).ret >= 2

\* C4: after the widget is destroyed the solver holds no constraint the widget
\* registered: no base constraint, no fixed constraint, no place*() constraint.
C4_NoConstraintAfterDestruction ==
    ~alive[Self] => \A c \in solver : c.by # Self

\* C5: a setter that changes a registered constraint of a dimension removes the
\* old constraint only after the new one is added: no step of a setter leaves
\* the solver without the constraint of a dimension that was registered before
\* the call and is registered after it.
C5_Step ==
    /\ (pc \in {"setMinimumExtent_width", "setMinimumExtent_height"}) =>
           MinimumWidthOf(Self)' # {} /\ MinimumHeightOf(Self)' # {}
    /\ (pc \in {"setPreferedExtent_width", "setPreferedExtent_height"}) =>
           PreferedWidthOf(Self)' # {} /\ PreferedHeightOf(Self)' # {}
    /\ (/\ pc = "setFixedExtent_remove_width"
        /\ fixedExtent[Self].width # 0 /\ arg.width # 0
        /\ arg.width # fixedExtent[Self].width) => FixedWidthOf(Self)' # {}
    /\ (/\ pc = "setFixedExtent_remove_height"
        /\ fixedExtent[Self].height # 0 /\ arg.height # 0
        /\ arg.height # fixedExtent[Self].height) => FixedHeightOf(Self)' # {}
C5_OldRemovedAfterNewAdded == [][C5_Step]_vars

\* C6: while the widget lives the solver holds exactly one minimum-width, one
\* minimum-height, one preferred-width and one preferred-height constraint of
\* it, the four handles refer to them, and after every completed call their
\* bounds are the stored minimum and preferred extents.
C6_OneBaseConstraintEach ==
    alive[Self] =>
        /\ \E c \in MinimumWidthOf(Self) :
               MinimumWidthOf(Self) = {c} /\ c.id = minimumWidthConstraint[Self]
        /\ \E c \in MinimumHeightOf(Self) :
               MinimumHeightOf(Self) = {c} /\ c.id = minimumHeightConstraint[Self]
        /\ \E c \in PreferedWidthOf(Self) :
               PreferedWidthOf(Self) = {c} /\ c.id = preferedWidthConstraint[Self]
        /\ \E c \in PreferedHeightOf(Self) :
               PreferedHeightOf(Self) = {c} /\ c.id = preferedHeightConstraint[Self]
        /\ pc = "idle" =>
               /\ ExactlyOne(MinimumWidthOf(Self), minimumWidthConstraint[Self],
                             minimumExtent[Self].width)
               /\ ExactlyOne(MinimumHeightOf(Self), minimumHeightConstraint[Self],
                             minimumExtent[Self].height)
               /\ ExactlyOne(PreferedWidthOf(Self), preferedWidthConstraint[Self],
                             preferedExtent[Self].width)
               /\ ExactlyOne(PreferedHeightOf(Self), preferedHeightConstraint[Self],
                             preferedExtent[Self].height)

C6_Witness ==
    /\ lastOp = "setMinimumExtent" /\ pc = "idle"
    /\ minimumExtent[Self] = [width |-> 2, height |-> 0]
    /\ preferedExtent[Self] = [width |-> 0, height |-> 2]
    /\ minimumWidthConstraint[Self] = Base(Self, 0)
    /\ Cardinality({c \in solver : c.by = Self}) = 4

\* C7: after every completed setFixedExtent call, for each axis, the solver
\* holds exactly one fixed constraint of the widget, with the stored fixed
\* dimension as its value, when that dimension is not zero, and none when it is
\* zero; removeConstraint is never called on a handle that is not registered.
C7_FixedConstraintIffNonZero ==
    /\ fatal # "constraint_not_found"
    /\ (alive[Self] /\ pc = "idle") =>
        /\ IF fixedExtent[Self].width # 0
           THEN ExactlyOne(FixedWidthOf(Self), fixedWidthConstraint[Self],
                           fixedExtent[Self].width)
           ELSE FixedWidthOf(Self) = {}
        /\ IF fixedExtent[Self].height # 0
           THEN ExactlyOne(FixedHeightOf(Self), fixedHeightConstraint[Self],
                           fixedExtent[Self].height)
           ELSE FixedHeightOf(Self) = {}

C7_Witness ==
    /\ lastOp = "setFixedExtent" /\ pc = "idle"
    /\ fixedExtent[Self] = [width |-> 0, height |-> 2]
    /\ fixedWidthConstraint[Self] # NoHandle
    /\ fixedHeightConstraint[Self] = Base(Self, 5) + 1

\* a non-zero fixed width below the minimum width, or the same for the height
BelowMinimum(e) ==
    \/ e.width # 0 /\ e.width < minimumExtent[Self].width
    \/ e.height # 0 /\ e.height < minimumExtent[Self].height

\* C19: a setFixedExtent call whose non-zero width or height is below the
\* current minimum ends in the failed assertion, with the stored extents, the
\* handles and the solver's constraints exactly as before the call; a call
\* that goes on to change the constraints was given no such value.
C19_Step ==
    /\ (fatal = "no" /\ fatal' = "assert") =>
           /\ BelowMinimum(arg')
           /\ UNCHANGED <<extentVars, handleVars, solver>>
    /\ (pc = "idle" /\ pc' = "setFixedExtent_remove_width") => ~BelowMinimum(arg')
    /\ (pc = "idle" /\ pc' = "idle" /\ fatal' = "no") => UNCHANGED <<fixedExtent, fatal>>
C19_FixedBelowMinimumIsFatal == [][C19_Step]_vars

\* the failed call asked for a fixed width below the minimum width while a
\* fixed extent was in place
C19_Witness ==
    /\ fatal = "assert" /\ lastOp = "setFixedExtent_assert"
    /\ arg.width # 0 /\ arg.width < minimumExtent[Self].width
    /\ fixedExtent[Self].width # 0 /\ FixedWidthOf(Self) # {}

\* ---------------------------------------------------------------- negative extents
\* the extents handed to the setters, a negative width or height included
SignedExtents == [width : {-1, 1}, height : {-1, 1}] \cup {[width |-> 0, height |-> 0]}

NextSigned ==
    \/ \E e \in SignedExtents : setMinimumExtent(e)
    \/ setMinimumExtent_width
    \/ setMinimumExtent_height
    \/ \E e \in SignedExtents : setPreferedExtent(e)
    \/ setPreferedExtent_width
    \/ setPreferedExtent_height
    \/ \E e \in SignedExtents : setFixedExtent(e)
    \/ setFixedExtent_remove_width
    \/ setFixedExtent_remove_height
    \/ setFixedExtent_add_width
    \/ setFixedExtent_add_height

SpecSigned == InitExtent /\ [][NextSigned]_vars

NonNegative(e) == e.width >= 0 /\ e.height >= 0

\* C20: a negative width or height handed to setMinimumExtent, setPreferedExtent
\* or setFixedExtent is never stored as the widget's extent, and no size
\* constraint with a negative bound is registered with the solver.
C20_NegativeExtentRejected ==
    /\ NonNegative(minimumExtent[Self])
    /\ NonNegative(preferedExtent[Self])
    /\ NonNegative(fixedExtent[Self])
    /\ \A c \in solver : c.rel = NoRel => c.bound >= 0

\* ---------------------------------------------------------------- setters, solver and passes
\* value v (in half units) satisfies size constraint c (bound in whole units)
Satisfies(v, c) ==
    IF c.op = ">=" THEN v >= 2 * c.bound ELSE v = 2 * c.bound

\* the solved width and height of w satisfy every required size constraint of w
SolverSatisfied(w) ==
    \A c \in solver :
        (c.by = w /\ c.strength = "required" /\ c.rel = NoRel) =>
            Satisfies(solved[w][c.var], c)

\* The solver re-solves: Self gets a width and a height that satisfy its
\* required size constraints.
Resolve(widthValue, heightValue) ==
    /\ Running /\ pc = "idle" /\ widgetSolverMutex = "free"
    /\ <<widthValue, heightValue>> # <<solved[Self].width, solved[Self].height>>
    /\ solved' = [solved EXCEPT ![Self].width = widthValue, ![Self].height = heightValue]
    /\ \A c \in solver :
           (c.by = Self /\ c.strength = "required" /\ c.rel = NoRel) =>
               Satisfies(solved'[Self][c.var], c)
    /\ IF rpc = "idle"
       THEN lastOp' = "solve" /\ log' = <<>> /\ pre' = WidgetState
       ELSE UNCHANGED <<lastOp, log, pre>>
    /\ SizeChanged(Self)
    /\ UNCHANGED <<treeVars, visualVars, libraryVars, solver, extentVars, handleVars,
                   needsVars, geomVars, ctlVars,
                   solverChanges, threadVars>>

\* a Layout Pass made while the solved values satisfy the required constraints
SolvedPass(force) ==
    /\ \A w \in Widgets : SolverSatisfied(w)
    /\ LayoutPass(force)

\* every widget starts with the solved size its constructor's constraints ask for
InitRest ==
    InitWidgetsAt(Star, DefaultExtent, TRUE,
                  [left |-> 0, bottom |-> 0,
                   width |-> 2 * DefaultExtent.width, height |-> 2 * DefaultExtent.height])

NextRest ==
    \/ \E e \in Extents : setMinimumExtent(e)
    \/ setMinimumExtent_width
    \/ setMinimumExtent_height
    \/ \E wv, hv \in {2 * k : k \in 0..MaxExtent} : Resolve(wv, hv)
    \/ \E force \in BOOLEAN : SolvedPass(force)

SpecRest == InitRest /\ [][NextRest]_vars

\* C18: whenever a widget is at rest (forceLayout and forceRedraw both false),
\* no setter call is in progress and the solver satisfies the widget's required
\* constraints, the stored rectangle is at least as wide and as high as the
\* minimum extent and has the fixed width and height where they are non-zero.
C18_RestingRectangleWithinConstraints ==
    \A w \in Descendants(Root) :
        (~forceLayout[w] /\ ~forceRedraw[w] /\ pc = "idle" /\ SolverSatisfied(w)) =>
            /\ extent[w].width >= minimumExtent[w].width
            /\ extent[w].height >= minimumExtent[w].height
            /\ fixedExtent[w].width # 0 => extent[w].width = fixedExtent[w].width
            /\ fixedExtent[w].height # 0 => extent[w].height = fixedExtent[w].height

\* ---------------------------------------------------------------- the pass, step by step
\* The Layout Pass of the render thread with one step for each access to state
\* that other threads share: the two exchanges of needs(), the sections under
\* window.widgetSolverMutex and the acquisitions of a widget's mutex.
Top == rstack[Len(rstack)]
\* the child the for loop of the innermost layoutChildren call is at
Cur == children(Top.w)[Top.i]
StepState == [WidgetState EXCEPT !.log = log]
renderRest == <<treeVars, visualVars, libraryVars, solved, solver, extentVars, handleVars,
                ctlVars, solverChanges,
                hstack>>

\* the window calls layoutChildren(force) on the root widget
layoutChildren_begin(force) ==
    /\ fatal = "no" /\ rpc = "idle" /\ mutex[Root] = "free"
    /\ mutex' = [mutex EXCEPT ![Root] = "render"]
    /\ rstack' = <<[w |-> Root, i |-> 1, total_need |-> 0]>>
    /\ rforce' = force
    /\ rpc' = "loop"
    /\ lastOp' = "layoutChildren_begin" /\ log' = <<>> /\ pre' = WidgetState
    /\ UNCHANGED <<renderRest, needsVars, geomVars, rlayout, widgetSolverMutex, quietVars>>

\* needs() of the next child: auto layout = forceLayout.exchange(false)
needs_forceLayout ==
    /\ rpc = "loop" /\ Top.i <= Len(children(Top.w))
    /\ rlayout' = forceLayout[Cur]
    /\ forceLayout' = [forceLayout EXCEPT ![Cur] = FALSE]
    /\ rpc' = "widthOrHeightValueHasChanged"
    /\ UNCHANGED <<renderRest, forceRedraw, widthChangePreviousValue, heightChangePreviousValue,
                   geomVars, lastOp, log, pre, rstack, rforce, mutex, widgetSolverMutex,
                   quietVars>>

\* widthOrHeightValueHasChanged(): scoped_lock(window.widgetSolverMutex)
widthOrHeightValueHasChanged_lock ==
    /\ rpc = "widthOrHeightValueHasChanged" /\ widgetSolverMutex = "free"
    /\ widgetSolverMutex' = "render"
    /\ rpc' = "widthOrHeightValueHasChanged_locked"
    /\ UNCHANGED <<renderRest, needsVars, geomVars, lastOp, log, pre, rstack, rforce, rlayout,
                   mutex, quietVars>>

\* layout |= widthOrHeightValueHasChanged(): the body, and the unlock on return
needs_widthOrHeightValueHasChanged ==
    /\ rpc = "widthOrHeightValueHasChanged_locked"
    /\ LET r == widthOrHeightValueHasChanged(WidgetState, Cur)
       IN /\ widthChangePreviousValue' = r.st.widthChangePreviousValue
          /\ heightChangePreviousValue' = r.st.heightChangePreviousValue
          /\ rlayout' = (rlayout \/ r.ret)
    /\ widgetSolverMutex' = "free"
    /\ rpc' = "needs_forceRedraw"
    /\ UNCHANGED <<renderRest, forceLayout, forceRedraw, geomVars, lastOp, log, pre, rstack,
                   rforce, mutex, quietVars>>

\* needs_forceRedraw that reads forceRedraw and leaves it set
needs_forceRedraw_load ==
    /\ rpc = "needs_forceRedraw"
    /\ LET redraw == rlayout \/ forceRedraw[Cur]
           need == 2 * BoolToInt(rlayout) + BoolToInt(redraw)
       IN /\ log' = Append(log, [op |-> "needs", w |-> Cur, ret |-> need])
          /\ redrawReported' = [redrawReported EXCEPT ![Cur] = @ \/ redraw]
          /\ rstack' = [rstack EXCEPT ![Len(rstack)].total_need = BitOr2(@, need)]
          /\ rpc' = IF rforce \/ need >= 2 THEN "layout" ELSE "layoutChildren"
    /\ rlayout' = FALSE
    /\ UNCHANGED <<renderRest, needsVars, geomVars, lastOp, pre, rforce, mutex,
                   widgetSolverMutex, quietPasses>>

\* redraw |= forceRedraw.exchange(false); needs() returns, total_need |= child_need,
\* and the loop decides on layout()
needs_forceRedraw ==
    /\ rpc = "needs_forceRedraw"
    /\ LET redraw == rlayout \/ forceRedraw[Cur]
           need == 2 * BoolToInt(rlayout) + BoolToInt(redraw)
       IN /\ forceRedraw' = [forceRedraw EXCEPT ![Cur] = FALSE]
          /\ log' = Append(log, [op |-> "needs", w |-> Cur, ret |-> need])
          /\ redrawReported' = [redrawReported EXCEPT ![Cur] = @ \/ redraw]
          /\ rstack' = [rstack EXCEPT ![Len(rstack)].total_need = BitOr2(@, need)]
          /\ rpc' = IF rforce \/ need >= 2 THEN "layout" ELSE "layoutChildren"
    /\ rlayout' = FALSE
    /\ UNCHANGED <<renderRest, forceLayout, widthChangePreviousValue, heightChangePreviousValue,
                   geomVars, lastOp, pre, rforce, mutex, widgetSolverMutex, quietPasses>>

\* child->layout(): scoped_lock(mutex) of the child
layout_lock ==
    /\ rpc = "layout" /\ mutex[Cur] = "free"
    /\ mutex' = [mutex EXCEPT ![Cur] = "render"]
    /\ rpc' = "makeWindowRectangle"
    /\ UNCHANGED <<renderRest, needsVars, geomVars, lastOp, log, pre, rstack, rforce, rlayout,
                   widgetSolverMutex, quietVars>>

\* makeWindowRectangle(): scoped_lock(window.widgetSolverMutex)
makeWindowRectangle_lock ==
    /\ rpc = "makeWindowRectangle" /\ widgetSolverMutex = "free"
    /\ widgetSolverMutex' = "render"
    /\ rpc' = "makeWindowRectangle_locked"
    /\ UNCHANGED <<renderRest, needsVars, geomVars, lastOp, log, pre, rstack, rforce, rlayout,
                   mutex, quietVars>>

\* layout_store that returns from makeWindowRectangle() with the solver mutex held
layout_store_holdSolverMutex ==
    /\ rpc = "makeWindowRectangle_locked"
    /\ SetWidgetState(layout(StepState, Cur))
    /\ mutex' = [mutex EXCEPT ![Cur] = "free"]
    /\ rpc' = "layoutChildren"
    /\ UNCHANGED <<renderRest, lastOp, pre, rstack, rforce, rlayout, quietVars,
                   widgetSolverMutex>>

\* the four values are read and the solver mutex released; layout() stores the
\* rectangle, sets forceRedraw and releases the child's mutex
layout_store ==
    /\ rpc = "makeWindowRectangle_locked"
    /\ SetWidgetState(layout(StepState, Cur))
    /\ widgetSolverMutex' = "free"
    /\ mutex' = [mutex EXCEPT ![Cur] = "free"]
    /\ rpc' = "layoutChildren"
    /\ UNCHANGED <<renderRest, lastOp, pre, rstack, rforce, rlayout, quietVars>>

\* child->layoutChildren(force): scoped_lock(mutex) of the child, total_need = 0
layoutChildren_lock ==
    /\ rpc = "layoutChildren" /\ mutex[Cur] = "free"
    /\ mutex' = [mutex EXCEPT ![Cur] = "render"]
    /\ rstack' = Append(rstack, [w |-> Cur, i |-> 1, total_need |-> 0])
    /\ rpc' = "loop"
    /\ UNCHANGED <<renderRest, needsVars, geomVars, lastOp, log, pre, rforce, rlayout,
                   widgetSolverMutex, quietVars>>

\* return total_need: the mutex is released; the caller ors the value into its
\* own total_need and goes on with its next child; the call on the root ends the pass
layoutChildren_return ==
    /\ rpc = "loop" /\ Top.i > Len(children(Top.w))
    /\ mutex' = [mutex EXCEPT ![Top.w] = "free"]
    /\ log' = Append(log, [op |-> "layoutChildren", w |-> Top.w, ret |-> Top.total_need])
    /\ IF Len(rstack) = 1
       THEN /\ rstack' = <<>>
            /\ rpc' = "idle"
            /\ lastOp' = PassName(rforce, FALSE)
            /\ quietPasses' = IF quietPasses = -1 THEN 0
                              ELSE IF rforce \/ quietPasses = 2 THEN quietPasses
                              ELSE quietPasses + 1
       ELSE /\ rstack' = [SubSeq(rstack, 1, Len(rstack) - 1) EXCEPT
                              ![Len(rstack) - 1].i = @ + 1,
                              ![Len(rstack) - 1].total_need = BitOr2(@, Top.total_need)]
            /\ rpc' = "loop"
            /\ UNCHANGED <<lastOp, quietPasses>>
    /\ UNCHANGED <<renderRest, needsVars, geomVars, pre, rforce, rlayout, widgetSolverMutex,
                   redrawReported>>

\* ---------------------------------------------------------------- a frame and the other threads
\* `enabled' of Self is changed, and its observer is run by the thread that
\* changes it: forceRedraw = true
enabled_notify ==
    /\ Running
    /\ enabled' = [enabled EXCEPT ![Self] = ~@]
    /\ forceRedraw' = [forceRedraw EXCEPT ![Self] = TRUE]
    /\ UNCHANGED <<treeVars, libraryVars, hover, focus, solved, solver, extentVars,
                   handleVars, forceLayout,
                   widthChangePreviousValue, heightChangePreviousValue, geomVars, ctlVars,
                   lastOp, log, pre, solverChanges, threadVars, quietVars>>

\* a forced invalidation by another thread: forceLayout = true
invalidate ==
    /\ Running
    /\ forceLayout' = [forceLayout EXCEPT ![Self] = TRUE]
    /\ UNCHANGED <<treeVars, visualVars, libraryVars, solved, solver, extentVars,
                   handleVars, forceRedraw,
                   widthChangePreviousValue, heightChangePreviousValue, geomVars, ctlVars,
                   lastOp, log, pre, solverChanges, threadVars, quietVars>>

\* Widget::draw() by the render thread after the Layout Pass.  A widget holds
\* its mutex while it makes the context of each child and calls the child's
\* draw(); no member of a widget is written.
\* the window calls draw() on the root widget: scoped_lock(mutex)
draw_begin ==
    /\ fatal = "no" /\ rpc = "idle" /\ mutex[Root] = "free"
    /\ mutex' = [mutex EXCEPT ![Root] = "render"]
    /\ rstack' = <<[w |-> Root, i |-> 1, total_need |-> 0]>>
    /\ rpc' = "draw"
    /\ lastOp' = "draw_begin" /\ log' = <<>> /\ pre' = WidgetState
    /\ UNCHANGED <<renderRest, needsVars, geomVars, rforce, rlayout, widgetSolverMutex,
                   quietVars>>

\* child->draw(childContext): scoped_lock(mutex) of the child
draw_child ==
    /\ rpc = "draw" /\ Top.i <= Len(children(Top.w))
    /\ mutex[Cur] = "free"
    /\ mutex' = [mutex EXCEPT ![Cur] = "render"]
    /\ rstack' = Append(rstack, [w |-> Cur, i |-> 1, total_need |-> 0])
    /\ log' = Append(log, [op |-> "draw", w |-> Cur, ret |-> 0])
    /\ UNCHANGED <<renderRest, needsVars, geomVars, lastOp, pre, rpc, rforce, rlayout,
                   widgetSolverMutex, quietVars>>

\* the end of the loop of draw(): the mutex is released
draw_return ==
    /\ rpc = "draw" /\ Top.i > Len(children(Top.w))
    /\ mutex' = [mutex EXCEPT ![Top.w] = "free"]
    /\ IF Len(rstack) = 1
       THEN /\ rstack' = <<>>
            /\ rpc' = "idle"
            /\ lastOp' = "draw"
       ELSE /\ rstack' = [SubSeq(rstack, 1, Len(rstack) - 1) EXCEPT
                              ![Len(rstack) - 1].i = @ + 1]
            /\ UNCHANGED <<rpc, lastOp>>
    /\ UNCHANGED <<renderRest, needsVars, geomVars, log, pre, rforce, rlayout,
                   widgetSolverMutex, quietVars>>

DrawPass == draw_begin \/ draw_child \/ draw_return

\* the tree of SpecFrame: every widget but the root is the child of the one before
Chain == [w \in Widgets |-> IF w = Root THEN NoWidget ELSE w - 1]

InitFrame ==
    InitWidgetsAt(Chain, DefaultExtent, TRUE,
                  [left |-> 0, bottom |-> 0,
                   width |-> 2 * DefaultExtent.width, height |-> 2 * DefaultExtent.height])

RenderPass ==
    \/ \E force \in BOOLEAN : layoutChildren_begin(force)
    \/ needs_forceLayout
    \/ widthOrHeightValueHasChanged_lock
    \/ needs_widthOrHeightValueHasChanged
    \/ needs_forceRedraw
    \/ layout_lock
    \/ makeWindowRectangle_lock
    \/ layout_store
    \/ layoutChildren_lock
    \/ layoutChildren_return

\* frames of the render thread while the solver re-solves and `enabled' changes
NextFrame ==
    \/ RenderPass
    \/ DrawPass
    \/ enabled_notify
    \/ \E wv, hv \in {2 * k : k \in 0..MaxExtent} : Resolve(wv, hv)

SpecFrame == InitFrame /\ [][NextFrame]_vars

\* passes of the render thread while other threads set the two flags of Self
NextFlags ==
    \/ RenderPass
    \/ enabled_notify
    \/ invalidate

SpecFlags == InitFrame /\ [][NextFlags]_vars

\* ---------------------------------------------------------------- properties of a frame
SolvedExtent(w) == [width |-> Round(solved[w].width), height |-> Round(solved[w].height)]
\* the step is the return of a needs() call on w
NeedsReturns(w) ==
    /\ Len(log') = Len(log) + 1
    /\ log'[Len(log')].op = "needs" /\ log'[Len(log')].w = w
\* the step is the exchange of forceLayout by a needs() call on w
ExchangesForceLayout(w) ==
    /\ rpc = "loop" /\ rpc' = "widthOrHeightValueHasChanged"
    /\ Top.i <= Len(children(Top.w)) /\ Cur = w

\* C12: whatever the interleaving of the threads that set forceLayout or
\* forceRedraw with the render thread's needs(), a set flag stays set until an
\* exchange of needs() takes it, the needs() call that took it returns its bit,
\* each exchange leaves the flag clear, and needs() returns a bit only for a
\* flag it took or a size change it found: no set is lost or reported twice.
C12_Step ==
    \A w \in Widgets :
        /\ (forceLayout[w] /\ ~forceLayout'[w]) => (ExchangesForceLayout(w) /\ rlayout')
        /\ ExchangesForceLayout(w) => (~forceLayout'[w] /\ rlayout' = forceLayout[w])
        /\ (rlayout /\ rpc \in {"widthOrHeightValueHasChanged",
                                 "widthOrHeightValueHasChanged_locked"}) => rlayout'
        /\ (forceRedraw[w] /\ ~forceRedraw'[w]) => NeedsReturns(w)
        /\ NeedsReturns(w) =>
               /\ ~forceRedraw'[w]
               /\ log'[Len(log')].ret =
                      2 * BoolToInt(rlayout) + BoolToInt(rlayout \/ forceRedraw[w])
C12_NoSetLostOrDoubled == [][C12_Step]_vars

\* a non-forced pass in which needs() of Self reported the redraw request of
\* another thread, and after which a further request is pending
C12_Witness ==
    /\ lastOp = PassName(FALSE, FALSE)
    /\ NeedOf(Self) = 1 /\ LayoutCalls(Self) = 0
    /\ forceRedraw[Self]

\* C13: once the solved size has stopped changing and two complete non-forced
\* passes have been made since, the stored extent of every widget below the
\* root is the rounded solved extent, and needs() has reported a redraw for it
\* since the change, whenever relative to a running pass the changes came.
C13_NoSizeInvalidationDropped ==
    quietPasses = 2 =>
        \A w \in Descendants(Root) : extent[w] = SolvedExtent(w) /\ redrawReported[w]

\* C15: whenever the pending layout signal of a widget has been consumed
\* (forceLayout false and the size cache equal to the solved size), the stored
\* extent is the rounded solved extent that caused the signal.
C15_ConsumedOnlyAfterStore ==
    \A w \in Descendants(Root) :
        (/\ ~forceLayout[w]
         /\ widthChangePreviousValue[w] = solved[w].width
         /\ heightChangePreviousValue[w] = solved[w].height) => extent[w] = SolvedExtent(w)

\* C16: forceRedraw of a widget, once set, is cleared by the Draw Pass only,
\* and no step of the Layout Pass sets it.
C16_Step ==
    \A w \in Widgets :
        /\ (forceRedraw[w] /\ ~forceRedraw'[w]) => (rpc = "draw" \/ rpc' = "draw")
        /\ (~forceRedraw[w] /\ forceRedraw'[w]) => rpc' = rpc
C16_RedrawClearedByDrawOnly == [][C16_Step]_vars

\* ---------------------------------------------------------------- locks
\* Widget::hitBoxTest() by the thread that also calls the setters.  A widget
\* holds its mutex while it tests its rectangle and calls hitBoxTest() of each
\* child; no member of a widget is written.
HTop == hstack[Len(hstack)]
HCur == children(HTop.w)[HTop.i]
inputRest == <<treeVars, visualVars, libraryVars, solved, solver, extentVars, handleVars,
               needsVars, geomVars, arg,
               alive, fatal, lastOp, log, pre, solverChanges, frameVars, widgetSolverMutex,
               quietVars>>

\* the window calls hitBoxTest() on the root widget: scoped_lock(mutex)
hitBoxTest_begin ==
    /\ Running /\ pc = "idle" /\ mutex[Root] = "free"
    /\ mutex' = [mutex EXCEPT ![Root] = "input"]
    /\ hstack' = <<[w |-> Root, i |-> 1]>>
    /\ pc' = "hitBoxTest"
    /\ UNCHANGED inputRest

\* child->hitBoxTest(position - child->offsetFromParent()): scoped_lock(mutex) of the child
hitBoxTest_child ==
    /\ pc = "hitBoxTest" /\ HTop.i <= Len(children(HTop.w))
    /\ mutex[HCur] = "free"
    /\ mutex' = [mutex EXCEPT ![HCur] = "input"]
    /\ hstack' = Append(hstack, [w |-> HCur, i |-> 1])
    /\ UNCHANGED <<inputRest, pc>>

\* return r: the mutex is released
hitBoxTest_return ==
    /\ pc = "hitBoxTest" /\ HTop.i > Len(children(HTop.w))
    /\ mutex' = [mutex EXCEPT ![HTop.w] = "free"]
    /\ IF Len(hstack) = 1
       THEN hstack' = <<>> /\ pc' = "idle"
       ELSE /\ hstack' = [SubSeq(hstack, 1, Len(hstack) - 1) EXCEPT
                              ![Len(hstack) - 1].i = @ + 1]
            /\ UNCHANGED pc
    /\ UNCHANGED inputRest

HitBoxTest == hitBoxTest_begin \/ hitBoxTest_child \/ hitBoxTest_return

\* the extents the setters are given while the render thread runs
LockExtents == {DefaultExtent, [width |-> MaxExtent, height |-> MaxExtent]}

\* the render thread lays out and draws while another thread calls the three
\* setters on Self and hit-tests the tree
NextLock ==
    \/ RenderPass
    \/ DrawPass
    \/ HitBoxTest
    \/ \E e \in LockExtents : setMinimumExtent(e)
    \/ setMinimumExtent_width
    \/ setMinimumExtent_height
    \/ \E e \in LockExtents : setPreferedExtent(e)
    \/ setPreferedExtent_width
    \/ setPreferedExtent_height
    \/ \E e \in {NoArg, [width |-> MaxExtent, height |-> MaxExtent]} : setFixedExtent(e)
    \/ setFixedExtent_remove_width
    \/ setFixedExtent_remove_height
    \/ setFixedExtent_add_width
    \/ setFixedExtent_add_height

SpecLock == InitFrame /\ [][NextLock]_vars

\* ---------------------------------------------------------------- properties of the locks
Threads == {"render", "input"}
\* the render thread is at an acquisition of a mutex that is not free
RenderWaits ==
    \/ rpc \in {"widthOrHeightValueHasChanged", "makeWindowRectangle"}
           /\ widgetSolverMutex # "free"
    \/ rpc \in {"layout", "layoutChildren"} /\ mutex[Cur] # "free"
    \/ rpc = "draw" /\ Top.i <= Len(children(Top.w)) /\ mutex[Cur] # "free"
\* the other thread is at a call of the solver, or at a child's hitBoxTest(),
\* and the mutex it needs is not free
InputWaits ==
    \/ pc \notin {"idle", "hitBoxTest"} /\ widgetSolverMutex # "free"
    \/ pc = "hitBoxTest" /\ HTop.i <= Len(children(HTop.w)) /\ mutex[HCur] # "free"
Deadlock == RenderWaits /\ InputWaits

\* C14: in the setters, needs(), layout(), layoutChildren(), draw() and
\* hitBoxTest() a thread that acquires a widget's mutex does not hold the
\* window's solver mutex nor the mutex of a descendant of that widget, and no
\* interleaving of the render thread with the other thread ends with each
\* waiting for a mutex the other holds.
C14_Step ==
    /\ \A t \in Threads, w \in Widgets :
           (mutex[w] # t /\ mutex'[w] = t) =>
               /\ widgetSolverMutex # t
               /\ \A d \in Descendants(w) : mutex[d] # t
    /\ ~Deadlock'
C14_LockOrder == [][C14_Step]_vars

\* the render thread, holding the mutex of the root, waits at layout() of Self
\* for the mutex that a setter holds; the setter is at its call of the solver
C14_Witness ==
    /\ rpc = "layout" /\ Cur = Self
    /\ mutex[Self] = "input" /\ mutex[Root] = "render"
    /\ pc = "setMinimumExtent_height"

\* ---------------------------------------------------------------- calls with the stored value
\* the three setters of Self, called with new values and with the stored ones
NextSame ==
    \/ \E e \in LockExtents : setMinimumExtent(e)
    \/ setMinimumExtent_width
    \/ setMinimumExtent_height
    \/ \E e \in LockExtents : setPreferedExtent(e)
    \/ setPreferedExtent_width
    \/ setPreferedExtent_height
    \/ \E e \in Extents : setFixedExtent(e)
    \/ setFixedExtent_remove_width
    \/ setFixedExtent_remove_height
    \/ setFixedExtent_add_width
    \/ setFixedExtent_add_height
    \/ callNeeds

SpecSame == InitExtent /\ [][NextSame]_vars

\* a setter of Self is called with the value it has stored
SameValueCall ==
    \/ setMinimumExtent(minimumExtent[Self])
    \/ setPreferedExtent(preferedExtent[Self])
    \/ setFixedExtent(fixedExtent[Self])

\* C21: a call of setMinimumExtent, setPreferedExtent or setFixedExtent with a
\* value equal to the stored one returns without a solver operation: the
\* registered constraints, the six handles, the three stored extents and both
\* needs flags are what they were before the call.
C21_Step ==
    SameValueCall =>
        /\ pc' = "idle"
        /\ UNCHANGED <<solver, handleVars, extentVars, forceLayout, forceRedraw>>
C21_SameValueIsNoOp == [][C21_Step]_vars

\* setFixedExtent has returned from a call with the non-zero value it had stored
C21_Witness ==
    /\ lastOp = "setFixedExtent_same" /\ pc = "idle" /\ fatal = "no"
    /\ fixedExtent[Self].width # 0 /\ fixedExtent[Self].height # 0
    /\ Registered(fixedWidthConstraint[Self]) /\ Registered(fixedHeightConstraint[Self])

\* ---------------------------------------------------------------- fixed extent against minimum
\* C29: after any sequence of setMinimumExtent and setFixedExtent calls none of
\* which failed an assertion, every non-zero stored fixed dimension is at least
\* the stored minimum of that dimension, and the solver does not hold a required
\* constraint width == f together with a required constraint width >= m with
\* f < m (nor such a pair for the height).
C29_FixedAtLeastMinimum ==
    (pc = "idle" /\ fatal = "no") =>
        /\ fixedExtent[Self].width # 0 => fixedExtent[Self].width >= minimumExtent[Self].width
        /\ fixedExtent[Self].height # 0 => fixedExtent[Self].height >= minimumExtent[Self].height
        /\ \A f \in FixedWidthOf(Self), m \in MinimumWidthOf(Self) : f.bound >= m.bound
        /\ \A f \in FixedHeightOf(Self), m \in MinimumHeightOf(Self) : f.bound >= m.bound

\* ---------------------------------------------------------------- setFixedWidth, setFixedHeight
\* setFixedWidth that keeps the stored fixed height
setFixedWidth_keepHeight(width) ==
    setFixedExtent([width |-> width, height |-> fixedExtent[Self].height])

\* void Widget::setFixedWidth(float width)
setFixedWidth(width) == setFixedExtent([width |-> width, height |-> 0])

\* void Widget::setFixedHeight(float height)
setFixedHeight(height) == setFixedExtent([width |-> 0, height |-> height])

\* the widgets are constructed with one of two default extents
InitAxis == \E d \in LockExtents : InitWidgets(Star, d, TRUE)

\* the fixed width and the fixed height of Self are set, one at a time
NextAxis ==
    \/ \E width \in 0..MaxExtent : setFixedWidth(width)
    \/ \E height \in 0..MaxExtent : setFixedHeight(height)
    \/ setFixedExtent_remove_width
    \/ setFixedExtent_remove_height
    \/ setFixedExtent_add_width
    \/ setFixedExtent_add_height
    \/ callNeeds

SpecAxis == InitAxis /\ [][NextAxis]_vars

\* C30: setFixedWidth(w) sets the whole fixed extent to (w, 0) and
\* setFixedHeight(h) sets it to (0, h); when the call returns the stored fixed
\* extent is that value and the fixed constraints registered for the widget are
\* exactly those of its non-zero dimensions, so that after calls of these two
\* only, at most one fixed constraint is registered: that of the last call's axis.
C30_Step ==
    /\ \A v \in 0..MaxExtent :
           (setFixedWidth(v) /\ pc' # "idle") => arg' = [width |-> v, height |-> 0]
    /\ \A v \in 0..MaxExtent :
           (setFixedHeight(v) /\ pc' # "idle") => arg' = [width |-> 0, height |-> v]
    /\ (pc = "setFixedExtent_add_height" /\ pc' = "idle" /\ fatal' = "no") =>
           /\ fixedExtent'[Self] = arg
           /\ IF arg.width # 0
              THEN ExactlyOne(FixedWidthOf(Self)', fixedWidthConstraint'[Self], arg.width)
              ELSE FixedWidthOf(Self)' = {}
           /\ IF arg.height # 0
              THEN ExactlyOne(FixedHeightOf(Self)', fixedHeightConstraint'[Self], arg.height)
              ELSE FixedHeightOf(Self)' = {}
           /\ Cardinality(FixedWidthOf(Self) \cup FixedHeightOf(Self))' <= 1
C30_OneAxisFixed == [][C30_Step]_vars

\* setFixedWidth has returned after an earlier setFixedHeight: the width
\* constraint is registered and the height constraint is gone
C30_Witness ==
    /\ pc = "idle" /\ fatal = "no" /\ lastOp = "setFixedExtent"
    /\ fixedExtent[Self].width # 0 /\ fixedExtent[Self].height = 0
    /\ fixedHeightConstraint[Self] # NoHandle
    /\ FixedWidthOf(Self) # {} /\ FixedHeightOf(Self) = {}

\* ---------------------------------------------------------------- hit test
\* HitBox{widget, elevation}; HitBox{} is no hit and is below every hit
HitBox(widget, e) == [widget |-> widget, elevation |-> e]
NoHitBox == HitBox(NoWidget, -1)
\* std::max(a, b) on hit boxes, which are ordered by elevation: a unless a < b
HitBoxMax(a, b) == IF a.elevation < b.elevation THEN b ELSE a

\* Widget::rectangle(): the stored extent at the widget's own origin
rectangle(w) == [x |-> 0, y |-> 0, width |-> extent[w].width, height |-> extent[w].height]
\* aarect::contains(position): left and bottom edge belong to the rectangle
contains(r, position) ==
    /\ r.x <= position.x /\ position.x < r.x + r.width
    /\ r.y <= position.y /\ position.y < r.y + r.height

RECURSIVE hitBoxTest(_, _)
RECURSIVE HitLoop(_, _, _, _)

\* the for loop of hitBoxTest that keeps the first hit it has, whatever the elevations
HitLoop_keepFirst(cs, i, position, r) ==
    IF i > Len(cs) THEN r
    ELSE LET child == cs[i]
             c == hitBoxTest(child, [x |-> position.x - offsetFromParent[child].x,
                                     y |-> position.y - offsetFromParent[child].y])
         IN HitLoop(cs, i + 1, position, IF r = NoHitBox THEN c ELSE r)

\* the for loop of hitBoxTest from child number i on, r being the best hit so far
HitLoop(cs, i, position, r) ==
    IF i > Len(cs) THEN r
    ELSE LET child == cs[i]
             c == hitBoxTest(child, [x |-> position.x - offsetFromParent[child].x,
                                     y |-> position.y - offsetFromParent[child].y])
         IN HitLoop(cs, i + 1, position, HitBoxMax(r, c))

\* HitBox Widget::hitBoxTest(vec position)
hitBoxTest(w, position) ==
    LET r == IF contains(rectangle(w), position) THEN HitBox(w, elevation[w]) ELSE NoHitBox
    IN HitLoop(children(w), 1, position, r)

\* the rectangles the solver places the widgets at, in half device units
HitRects ==
    {[left |-> 0, bottom |-> 0, width |-> 4, height |-> 2],
     [left |-> 2, bottom |-> 0, width |-> 4, height |-> 2],
     [left |-> 1, bottom |-> 0, width |-> 3, height |-> 4]}
\* the positions the pointer is at, in device units
Positions == [x : 0..2, y : 0..1]

\* the solver re-solves and gives widget w another rectangle
SolverMove(w, rect) ==
    /\ pc = "idle" /\ fatal = "no" /\ widgetSolverMutex = "free"
    /\ solverChanges < MaxSolverChanges
    /\ solved[w] # rect
    /\ solved' = [solved EXCEPT ![w] = rect]
    /\ solverChanges' = solverChanges + 1
    /\ lastOp' = "solve"
    /\ log' = <<>>
    /\ pre' = WidgetState
    /\ SizeChanged(w)
    /\ UNCHANGED <<treeVars, visualVars, libraryVars, solver, extentVars, handleVars,
                   needsVars, geomVars, ctlVars,
                   threadVars>>

\* hitBoxTest(position) called on widget w; the call and its result are put on record
hitBoxTestCall(w, position) ==
    /\ pc = "idle" /\ fatal = "no"
    /\ lastOp' = "hitBoxTest"
    /\ log' = <<[op |-> "hitBoxTest", w |-> w, position |-> position,
                 ret |-> hitBoxTest(w, position)]>>
    /\ pre' = WidgetState
    /\ UNCHANGED <<treeVars, visualVars, libraryVars, solved, solver, extentVars,
                   handleVars, needsVars, geomVars,
                   ctlVars, solverChanges, threadVars, quietVars>>

\* every tree, every widget but the root with a solved rectangle
InitHit ==
    \E p \in Trees : \E rects \in [Widgets \ {Root} -> HitRects] :
        InitWidgetsWith(p, DefaultExtent, TRUE,
                        [w \in Widgets |-> IF w = Root THEN ZeroRect ELSE rects[w]])

\* passes and hit tests
NextHit ==
    \/ \E force \in BOOLEAN : LayoutPass(force)
    \/ \E w \in Widgets, position \in Positions : hitBoxTestCall(w, position)

SpecHit == InitHit /\ [][NextHit]_vars

\* passes, between which the solver moves the widgets
NextMove ==
    \/ \E force \in BOOLEAN : LayoutPass(force)
    \/ \E w \in Widgets \ {Root}, rect \in HitRects : SolverMove(w, rect)

SpecMove == InitHit /\ [][NextMove]_vars

\* ---------------------------------------------------------------- properties of the hit test
\* position in the coordinates of v, a widget of the subtree of w0, position
\* being in the coordinates of w0: the offsets from the parent are taken off
\* on the way down
RECURSIVE LocalPosition(_, _, _)
LocalPosition(w0, v, position) ==
    IF v = w0 THEN position
    ELSE LET q == LocalPosition(w0, parent[v], position)
         IN [x |-> q.x - offsetFromParent[v].x, y |-> q.y - offsetFromParent[v].y]

\* the widgets of the subtree of w0 whose rectangle contains the position
Containing(w0, position) ==
    {v \in {w0} \cup Descendants(w0) : contains(rectangle(v), LocalPosition(w0, v, position))}

\* C22: hitBoxTest(position) on a widget returns a widget of the highest
\* elevation among the widgets of its subtree whose rectangle contains the
\* position (translated by the offset from the parent of each child on the way
\* down), with that widget's elevation, and returns no hit exactly when no
\* widget of the subtree contains the position.
C22_HitIsTopmostContaining ==
    lastOp = "hitBoxTest" =>
        LET call == log[1]
            hits == Containing(call.w, call.position)
        IN IF hits = {} THEN call.ret = NoHitBox
           ELSE /\ call.ret.widget \in hits
                /\ call.ret.elevation = elevation[call.ret.widget]
                /\ \A v \in hits : elevation[v] <= call.ret.elevation

\* two overlapping widgets of elevation 1 and 2 contain the position, and the
\* one of elevation 2 is returned
C22_Witness ==
    /\ lastOp = "hitBoxTest"
    /\ LET call == log[1]
           hits == Containing(call.w, call.position)
       IN /\ call.w = Root
          /\ \E a, b \in hits : elevation[a] = 1 /\ elevation[b] = 2
          /\ call.ret.elevation = 2 /\ elevation[call.ret.widget] = 2

\* C23: in every reachable state the elevation of the root is 0 and that of
\* every other widget is its parent's plus 1, which is its nesting depth; so
\* siblings have one elevation, a child is above its parent, and hitBoxTest
\* never returns a widget one of whose children contains the position.
C23_ElevationIsDepth ==
    /\ \A w \in Widgets :
           /\ elevation[w] = (IF parent[w] = NoWidget THEN 0 ELSE elevation[parent[w]] + 1)
           /\ elevation[w] = Cardinality(Ancestors(w))
           /\ \A v \in Widgets : parent[v] = parent[w] => elevation[v] = elevation[w]
    /\ lastOp = "hitBoxTest" =>
           LET call == log[1]
           IN \A c \in Containing(call.w, call.position) \ {call.w} :
                  call.ret.widget # parent[c]

\* a widget of depth 2 and its parent both contain the position, and the
\* widget of depth 2 is returned
C23_Witness ==
    /\ lastOp = "hitBoxTest"
    /\ LET call == log[1]
           hits == Containing(call.w, call.position)
       IN \E c \in hits :
              /\ parent[c] \in hits /\ parent[c] # Root
              /\ call.ret = HitBox(c, 2)

\* ---------------------------------------------------------------- offsets and transforms
\* C24: after every complete Layout Pass, forced or not, every widget below the
\* root has as offset from its parent its own window offset minus the parent's
\* window offset, and as transforms the translations by (x, y, z) and
\* (-x, -y, -z) of its window rectangle and elevation; also when the parent
\* was laid out in the pass and the widget was not.
C24_OffsetsAndTransformsCurrent ==
    AfterPass =>
        \A w \in Descendants(Root) :
            /\ offsetFromParent[w] =
                   [x |-> offsetFromWindow[w].x - offsetFromWindow[parent[w]].x,
                    y |-> offsetFromWindow[w].y - offsetFromWindow[parent[w]].y]
            /\ toWindowTransform[w] =
                   <<offsetFromWindow[w].x, offsetFromWindow[w].y, elevation[w]>>
            /\ fromWindowTransform[w] =
                   <<-offsetFromWindow[w].x, -offsetFromWindow[w].y, -elevation[w]>>

\* ---------------------------------------------------------------- draw
\* the theme: a border and a fill colour for every nesting level, and the accent colour
borderColor(nestingLevel) == [kind |-> "border", level |-> nestingLevel]
fillColor(nestingLevel) == [kind |-> "fill", level |-> nestingLevel]
accentColor == [kind |-> "accent", level |-> 0]
\* Widget::nestingLevel(): the elevation as an integer
nestingLevel(w) == elevation[w]
\* Widget::clippingRectangle(): the rectangle of the widget in the window
clippingRectangle(w) == WindowRectangle(w)

\* the colours of the child's context, with the defaults left as the context has them
StyleOf_noDefault(childContext, child) ==
    LET childNestingLevel == nestingLevel(child)
    IN IF enabled[child]
       THEN LET c1 == IF focus[child]
                      THEN [childContext EXCEPT !.color = accentColor]
                      ELSE IF hover[child]
                           THEN [childContext EXCEPT
                                     !.color = borderColor(childNestingLevel + 1)]
                           ELSE childContext
            IN IF hover[child]
               THEN [c1 EXCEPT !.fillColor = fillColor(childNestingLevel + 1)]
               ELSE c1
       ELSE [childContext EXCEPT !.color = borderColor(childNestingLevel - 1),
                                 !.fillColor = fillColor(childNestingLevel - 1)]

\* the colours of the child's context, with hover looked at before focus
StyleOf_hoverFirst(childContext, child) ==
    LET childNestingLevel == nestingLevel(child)
        c0 == [childContext EXCEPT !.color = borderColor(childNestingLevel),
                                   !.fillColor = fillColor(childNestingLevel)]
    IN IF enabled[child]
       THEN LET c1 == IF hover[child]
                      THEN [c0 EXCEPT !.color = borderColor(childNestingLevel + 1)]
                      ELSE IF focus[child]
                           THEN [c0 EXCEPT !.color = accentColor]
                           ELSE c0
            IN IF hover[child]
               THEN [c1 EXCEPT !.fillColor = fillColor(childNestingLevel + 1)]
               ELSE c1
       ELSE [c0 EXCEPT !.color = borderColor(childNestingLevel - 1),
                       !.fillColor = fillColor(childNestingLevel - 1)]

\* the colours of the child's context, with the hover fill given to a disabled child too
StyleOf_hoverDisabled(childContext, child) ==
    LET childNestingLevel == nestingLevel(child)
        c0 == [childContext EXCEPT !.color = borderColor(childNestingLevel),
                                   !.fillColor = fillColor(childNestingLevel)]
        c1 == IF enabled[child]
              THEN IF focus[child]
                   THEN [c0 EXCEPT !.color = accentColor]
                   ELSE IF hover[child]
                        THEN [c0 EXCEPT !.color = borderColor(childNestingLevel + 1)]
                        ELSE c0
              ELSE [c0 EXCEPT !.color = borderColor(childNestingLevel - 1),
                              !.fillColor = fillColor(childNestingLevel - 1)]
    IN IF hover[child]
       THEN [c1 EXCEPT !.fillColor = fillColor(childNestingLevel + 1)]
       ELSE c1

\* the colours draw() gives the context of a child: the defaults of the
\* child's nesting level, then the overrides for enabled, focus and hover
StyleOf(childContext, child) ==
    LET childNestingLevel == nestingLevel(child)
        c0 == [childContext EXCEPT !.color = borderColor(childNestingLevel),
                                   !.fillColor = fillColor(childNestingLevel)]
    IN IF enabled[child]
       THEN LET c1 == IF focus[child]
                      THEN [c0 EXCEPT !.color = accentColor]
                      ELSE IF hover[child]
                           THEN [c0 EXCEPT !.color = borderColor(childNestingLevel + 1)]
                           ELSE c0
            IN IF hover[child]
               THEN [c1 EXCEPT !.fillColor = fillColor(childNestingLevel + 1)]
               ELSE c1
       ELSE [c0 EXCEPT !.color = borderColor(childNestingLevel - 1),
                       !.fillColor = fillColor(childNestingLevel - 1)]

\* void Widget::draw(drawContext): the calls of draw() made below w, in order,
\* each with the context the parent was given and the context it hands down.
\* DrawLoop is the for loop from child number i on; childContext is the one
\* copy of drawContext that the loop changes for each child.
RECURSIVE draw(_, _)
RECURSIVE DrawLoop(_, _, _, _, _)
DrawLoop(cs, i, drawContext, childContext, calls) ==
    IF i > Len(cs) THEN calls
    ELSE LET child == cs[i]
             c0 == [childContext EXCEPT !.clippingRectangle = clippingRectangle(child),
                                        !.transform = toWindowTransform[child]]
             c1 == StyleOf(c0, child)
             call == [op |-> "draw", w |-> child, drawContext |-> drawContext, ret |-> c1]
         IN DrawLoop(cs, i + 1, drawContext, c1, calls \o <<call>> \o draw(child, c1))

draw(w, drawContext) == DrawLoop(children(w), 1, drawContext, drawContext, <<>>)

\* the contexts the window hands to draw() of the root
DrawContexts ==
    {[clippingRectangle |-> [x |-> 0, y |-> 0, width |-> 4, height |-> 4],
      transform |-> <<0, 0, 0>>, color |-> borderColor(0), fillColor |-> fillColor(0),
      shadowSize |-> s] : s \in {0, 1}}

\* the window calls draw(drawContext) on the root; the calls made are put on record
drawCall(drawContext) ==
    /\ pc = "idle" /\ fatal = "no"
    /\ lastOp' = "drawCall"
    /\ log' = draw(Root, drawContext)
    /\ pre' = WidgetState
    /\ UNCHANGED <<treeVars, visualVars, libraryVars, solved, solver, extentVars,
                   handleVars, needsVars,
                   geomVars, ctlVars, solverChanges, threadVars, quietVars>>

\* enabled, hover or focus of widget w is changed by the thread that handles
\* the input; the widget is to be drawn again
visual_change(w, e, h, f) ==
    /\ pc = "idle" /\ fatal = "no"
    /\ <<e, h, f>> # <<enabled[w], hover[w], focus[w]>>
    /\ enabled' = [enabled EXCEPT ![w] = e]
    /\ hover' = [hover EXCEPT ![w] = h]
    /\ focus' = [focus EXCEPT ![w] = f]
    /\ forceRedraw' = [forceRedraw EXCEPT ![w] = TRUE]
    /\ lastOp' = "visual_change" /\ log' = <<>> /\ pre' = WidgetState
    /\ UNCHANGED <<treeVars, libraryVars, solved, solver, extentVars, handleVars, forceLayout,
                   widthChangePreviousValue, heightChangePreviousValue, geomVars, ctlVars,
                   solverChanges, threadVars, quietVars>>

\* every tree; widget w is solved at left w, bottom 0, with width and height 1
InitDraw ==
    \E p \in Trees :
        InitWidgetsWith(p, DefaultExtent, TRUE,
                        [w \in Widgets |-> [left |-> 2 * w, bottom |-> 0,
                                            width |-> 2, height |-> 2]])

NextDraw ==
    \/ LayoutPass(TRUE)
    \/ \E w \in Widgets \ {Root}, e, h, f \in BOOLEAN : visual_change(w, e, h, f)
    \/ \E drawContext \in DrawContexts : drawCall(drawContext)

SpecDraw == InitDraw /\ [][NextDraw]_vars

\* ---------------------------------------------------------------- properties of draw
\* the calls of draw() on record
DrawCalls == {log[i] : i \in 1..Len(log)}

\* C25: a child with enabled = false is handed the border and the fill colour
\* of one nesting level below its own, whatever its hover and focus are: never
\* the accent colour, never a colour of the level above.
C25_DisabledIsDarker ==
    lastOp = "drawCall" =>
        \A call \in DrawCalls :
            ~enabled[call.w] =>
                /\ call.ret.color = borderColor(nestingLevel(call.w) - 1)
                /\ call.ret.fillColor = fillColor(nestingLevel(call.w) - 1)

\* a disabled child that is hovered and focused has been drawn
C25_Witness ==
    /\ lastOp = "drawCall"
    /\ \E call \in DrawCalls :
           /\ ~enabled[call.w] /\ hover[call.w] /\ focus[call.w]
           /\ call.ret.color = borderColor(nestingLevel(call.w) - 1)

\* C26 as stated: an enabled child that is focused is handed the accent colour;
\* one that is hovered and not focused the border and the fill colour of the
\* nesting level above its own; only a child that is hovered and not focused
\* gets that fill colour; one that is neither gets the colours of its own level.
C26_EnabledColours ==
    lastOp = "drawCall" =>
        \A call \in DrawCalls :
            enabled[call.w] =>
                LET level == nestingLevel(call.w)
                IN /\ focus[call.w] => call.ret.color = accentColor
                   /\ (hover[call.w] /\ ~focus[call.w]) =>
                          /\ call.ret.color = borderColor(level + 1)
                          /\ call.ret.fillColor = fillColor(level + 1)
                   /\ call.ret.fillColor = fillColor(level + 1) =>
                          (hover[call.w] /\ ~focus[call.w])
                   /\ (~hover[call.w] /\ ~focus[call.w]) =>
                          /\ call.ret.color = borderColor(level)
                          /\ call.ret.fillColor = fillColor(level)

\* C26: an enabled child that is focused is handed the accent colour as its
\* border colour; one that is hovered and not focused the border colour of the
\* nesting level above its own; one that is neither the border colour of its
\* own level.  The fill colour is that of the level above exactly when the
\* child is hovered, focused or not, and that of its own level otherwise.
C26_EnabledColoursFillByHover ==
    lastOp = "drawCall" =>
        \A call \in DrawCalls :
            enabled[call.w] =>
                LET level == nestingLevel(call.w)
                IN /\ focus[call.w] => call.ret.color = accentColor
                   /\ (hover[call.w] /\ ~focus[call.w]) =>
                          call.ret.color = borderColor(level + 1)
                   /\ (~hover[call.w] /\ ~focus[call.w]) =>
                          call.ret.color = borderColor(level)
                   /\ call.ret.fillColor =
                          (IF hover[call.w] THEN fillColor(level + 1) ELSE fillColor(level))

\* an enabled child that is focused and hovered has been drawn with the accent
\* colour and the fill colour of the level above
C26_Witness ==
    /\ lastOp = "drawCall"
    /\ \E call \in DrawCalls :
           /\ enabled[call.w] /\ focus[call.w] /\ hover[call.w]
           /\ call.ret.color = accentColor
           /\ call.ret.fillColor = fillColor(nestingLevel(call.w) + 1)

\* C27: the context handed to a child is the one it would be handed as the
\* only child of a parent drawn with the same context: it depends on the
\* context the parent was given and on the child's own clipping rectangle,
\* transform, nesting level, enabled, hover and focus, not on the siblings
\* drawn before it.
C27_SiblingsDoNotInterfere ==
    lastOp = "drawCall" =>
        \A call \in DrawCalls :
            call.ret = DrawLoop(<<call.w>>, 1, call.drawContext, call.drawContext, <<>>)[1].ret

\* a child that is neither hovered nor focused has been drawn after a sibling
\* that is both
C27_Witness ==
    /\ lastOp = "drawCall"
    /\ \E a, b \in DrawCalls :
           /\ a.w < b.w /\ parent[a.w] = parent[b.w]
           /\ enabled[a.w] /\ focus[a.w] /\ hover[a.w]
           /\ enabled[b.w] /\ ~focus[b.w] /\ ~hover[b.w]
           /\ a.ret.color = accentColor
           /\ b.ret.color = borderColor(nestingLevel(b.w))

\* ---------------------------------------------------------------- placement_move_within_array
\* The array is a sequence of cells: a cell holds an object, known by the
\* number v it was given, or is raw memory: never constructed, or destroyed.
\* Pointers are the numbers of the cells, MaxArray + 1 being one past the end.
widgetVars == <<treeVars, visualVars, solved, solver, extentVars, handleVars, needsVars,
                geomVars, ctlVars, lastOp, log, pre, solverChanges, threadVars, quietVars>>
Raw == [live |-> FALSE, v |-> 0]
Object(v) == [live |-> TRUE, v |-> v]
Pointers == 1..(MaxArray + 1)

\* what std::move(*src) reads: the object, or anything when there is none
ReadOf(cell) == IF cell.live THEN {cell} ELSE {Object(v) : v \in 0..MaxArray}

\* T *placement_move(T *src, T *dst): the object is constructed at dst from the
\* one at src, which is then destroyed; read is what was read from src.
\* With src = dst (undefined behaviour) the cell is left either way.
placement_move(a, s, d, read) ==
    IF s = d THEN {[a EXCEPT ![s] = Raw], [a EXCEPT ![s] = read]}
    ELSE {[a EXCEPT ![d] = read, ![s] = Raw]}

\* one placement_move(s, d) of the loop, and the history of what it read
MoveStep(s, d) ==
    /\ \E read \in ReadOf(array[s]) : array' \in placement_move(array, s, d, read)
    /\ staleRead' = (staleRead \/ array[s] # array0[s])
    /\ src' = s /\ dst' = d

\* placement_move_within_array that always moves from the first element on
placement_move_within_array_forward(sf, sl, df) ==
    /\ mpc \in {"idle", "done"}
    /\ sl >= sf /\ df + (sl - sf) <= MaxArray + 1
    /\ \A i \in sf..(sl - 1) : array[i].live
    /\ src_first' = sf /\ src_last' = sl /\ dst_first' = df
    /\ array0' = array /\ staleRead' = FALSE
    /\ IF sf # df
       THEN src' = sf /\ dst' = df /\ mpc' = "forward"
       ELSE src' = sf /\ dst' = df /\ mpc' = "done"
    /\ UNCHANGED <<array, widgetVars, huffmanVars>>

\* void placement_move_within_array(T *src_first, T *src_last, T *dst_first),
\* called on a range of objects and a destination inside the array
placement_move_within_array(sf, sl, df) ==
    /\ mpc \in {"idle", "done"}
    /\ sl >= sf /\ df + (sl - sf) <= MaxArray + 1
    /\ \A i \in sf..(sl - 1) : array[i].live
    /\ src_first' = sf /\ src_last' = sl /\ dst_first' = df
    /\ array0' = array /\ staleRead' = FALSE
    /\ IF sf < df
       THEN src' = sl /\ dst' = df + (sl - sf) /\ mpc' = "backward"
       ELSE IF sf > df
            THEN src' = sf /\ dst' = df /\ mpc' = "forward"
            ELSE src' = sf /\ dst' = df /\ mpc' = "done"
    /\ UNCHANGED <<array, widgetVars, huffmanVars>>

\* while (src != src_first) placement_move(--src, --dst);
move_backward ==
    /\ mpc = "backward"
    /\ IF src # src_first
       THEN MoveStep(src - 1, dst - 1) /\ UNCHANGED mpc
       ELSE mpc' = "done" /\ UNCHANGED <<array, src, dst, staleRead>>
    /\ UNCHANGED <<src_first, src_last, dst_first, array0, widgetVars, huffmanVars>>

\* while (src != src_last) placement_move(src++, dst++);
move_forward ==
    /\ mpc = "forward"
    /\ IF src # src_last
       THEN /\ \E read \in ReadOf(array[src]) :
                   array' \in placement_move(array, src, dst, read)
            /\ staleRead' = (staleRead \/ array[src] # array0[src])
            /\ src' = src + 1 /\ dst' = dst + 1
            /\ UNCHANGED mpc
       ELSE mpc' = "done" /\ UNCHANGED <<array, src, dst, staleRead>>
    /\ UNCHANGED <<src_first, src_last, dst_first, array0, widgetVars, huffmanVars>>

\* an array of MaxArray cells, each an object or raw memory
InitMemory ==
    /\ InitWidgetState(Star, DefaultExtent, TRUE, [w \in Widgets |-> ZeroRect])
    /\ \E live \in SUBSET (1..MaxArray) :
           array = [i \in 1..MaxArray |-> IF i \in live THEN Object(i) ELSE Raw]
    /\ array0 = array
    /\ src_first = 1 /\ src_last = 1 /\ dst_first = 1 /\ src = 1 /\ dst = 1
    /\ mpc = "idle" /\ staleRead = FALSE
    /\ NoTable

NextMemory ==
    \/ \E sf, sl, df \in Pointers : placement_move_within_array(sf, sl, df)
    \/ move_backward
    \/ move_forward

SpecMemory == InitMemory /\ [][NextMemory]_vars

\* C28: when placement_move_within_array has returned, every element of the
\* destination range holds the object that the element of the same number of
\* the source range held at the call, whether the ranges overlap, in either
\* direction, or not; the cells of neither range are as they were; no element
\* was read after it had been destroyed or overwritten; and a call with
\* src_first = dst_first has changed nothing.
C28_MoveWithinArray ==
    /\ ~staleRead
    /\ mpc = "done" =>
           /\ \A i \in 0..(src_last - src_first - 1) :
                  array[dst_first + i] = array0[src_first + i]
           /\ \A i \in 1..MaxArray :
                  (/\ i \notin src_first..(src_last - 1)
                   /\ i \notin dst_first..(dst_first + (src_last - src_first) - 1)) =>
                      array[i] = array0[i]
           /\ src_first = dst_first => array = array0

\* a range of two objects has been moved one element up, onto itself
C28_Witness ==
    /\ mpc = "done"
    /\ src_last = src_first + 2 /\ dst_first = src_first + 1
    /\ \A i \in 0..1 : array[dst_first + i] = array0[src_first + i] /\ array[dst_first + i].live
    /\ array[src_first] = Raw

\* ---------------------------------------------------------------- huffman_symbol_table_from_length
\* struct huffman_symbol { int symbol; int code; int length; }
huffman_symbol(symbol, code, length) == [symbol |-> symbol, code |-> code, length |-> length]

\* the comparison handed to std::sort: by length, then by symbol
SortLess(a, b) ==
    IF a.length = b.length THEN a.symbol < b.symbol ELSE a.length < b.length

\* std::sort(table.begin(), table.end(), ...): the symbols of a table are
\* distinct, so that the order is total and the sorted table is the only one
RECURSIVE SortInsert(_, _)
SortInsert(t, e) ==
    IF t = <<>> THEN <<e>>
    ELSE IF SortLess(e, Head(t)) THEN <<e>> \o t
         ELSE <<Head(t)>> \o SortInsert(Tail(t), e)

RECURSIVE SortTable(_)
SortTable(t) ==
    IF t = <<>> THEN <<>> ELSE SortInsert(SortTable(Tail(t)), Head(t))

\* code <<= shift, on an int; the codes of the tables drawn here stay far below 2^31
ShiftLeft(code, shift) == code * (2 ^ shift)

\* for (auto &&entry: table) { ... } from entry i on, with the values of the
\* locals code and length; the body never assigns length
RECURSIVE CodeLoop(_, _, _, _)
CodeLoop(t, i, code, length) ==
    IF i > Len(t) THEN t
    ELSE LET entry == t[i]
             shift == entry.length - length
             shifted == ShiftLeft(code, shift)
         IN  CodeLoop([t EXCEPT ![i].code = shifted], i + 1,
                      IF entry.length # 0 THEN shifted + 1 ELSE shifted,
                      length)

\* void huffman_symbol_table_from_length(std::vector<huffman_symbol> &table)
huffman_symbol_table_from_length ==
    /\ hpc = "idle"
    /\ table' = CodeLoop(SortTable(table), 1, 0, 0)
    /\ hpc' = "done"
    /\ UNCHANGED <<table0, widgetVars, memoryVars>>

\* a table of up to MaxSymbols symbols 0, 1, ... in rising or falling order,
\* each with a code length of 0 (symbol not used) to MaxLength and no code yet
InitHuffman ==
    /\ InitWidgetState(Star, DefaultExtent, TRUE, [w \in Widgets |-> ZeroRect])
    /\ NoArray
    /\ \E n \in 1..MaxSymbols : \E lengths \in [1..n -> 0..MaxLength] :
        \E descending \in BOOLEAN :
           table = [i \in 1..n |->
                       huffman_symbol(IF descending THEN n - i ELSE i - 1, 0, lengths[i])]
    /\ table0 = table
    /\ hpc = "idle"

NextHuffman == huffman_symbol_table_from_length

SpecHuffman == InitHuffman /\ [][NextHuffman]_vars

\* the Kraft inequality: the sum of 2^-length over the used symbols is at most 1
RECURSIVE KraftSum(_, _)
KraftSum(t, i) ==
    IF i > Len(t) THEN 0
    ELSE (IF t[i].length = 0 THEN 0 ELSE 2 ^ (MaxLength - t[i].length)) + KraftSum(t, i + 1)

Kraft(t) == KraftSum(t, 1) <= 2 ^ MaxLength

SortedByLengthAndSymbol(t) ==
    \A i, j \in 1..Len(t) : i < j => SortLess(t[i], t[j])

CodesFit(t) ==
    \A i \in 1..Len(t) : t[i].length # 0 => t[i].code < 2 ^ t[i].length

EqualLengthConsecutive(t) ==
    \A i \in 1..(Len(t) - 1) :
        (t[i].length # 0 /\ t[i + 1].length = t[i].length) => t[i + 1].code = t[i].code + 1

\* the code of a, written in a.length bits, is the start of the code of b
IsPrefix(a, b) ==
    /\ a.length <= b.length
    /\ b.code \div (2 ^ (b.length - a.length)) = a.code

PrefixFree(t) ==
    \A i, j \in 1..Len(t) :
        (i # j /\ t[i].length # 0 /\ t[j].length # 0) => ~IsPrefix(t[i], t[j])

\* C31: after huffman_symbol_table_from_length on a table whose code lengths
\* satisfy the Kraft inequality, the table is sorted by (length, symbol), the
\* code of every entry of non-zero length is below 2^length, the codes of
\* entries of equal length are consecutive in symbol order, and no code is a
\* prefix of the code of another entry.
C31_CanonicalCodes ==
    (hpc = "done" /\ Kraft(table0)) =>
        /\ SortedByLengthAndSymbol(table)
        /\ CodesFit(table)
        /\ EqualLengthConsecutive(table)
        /\ PrefixFree(table)

====
